---- MODULE Spec2Model ----
(***************************************************************************)
(* A model of the Cohere chatbot tutorial: the prompt template registry    *)
(* (templates.ts) and the CohereChatbot session class (chatbot.ts), driven  *)
(* by a caller that awaits every turn, as the interactive loop of index.ts  *)
(* does.                                                                   *)
(*                                                                         *)
(* Representation.  A text is a sequence of one-character strings, so that *)
(* String.prototype.replace and string concatenation are computed on       *)
(* characters.  Template names, model names and roles are only ever        *)
(* compared with ===, and are TLA+ strings.  A temperature is an integer   *)
(* number of hundredths (0.3 is 30).  A configuration object is a function *)
(* from the names of its own properties to their values.  An own property  *)
(* that holds undefined reads like an absent one (this.config.x), but an   *)
(* object spread copies it, so the object keeps the names of such          *)
(* properties as a set under the reserved name "undefined"; the entry is   *)
(* left out when the set is empty.  The order of the properties is not     *)
(* modelled.  The timestamp of a message is written and never read by the  *)
(* class, and is not modelled.                                             *)
(***************************************************************************)
EXTENDS Integers, Sequences, FiniteSets, TLC

VARIABLES config, conversationHistory, pending, last

vars == <<config, conversationHistory, pending, last>>

(***************************************************************************)
(* Texts of the source.                                                    *)
(***************************************************************************)
Template_general ==
    <<"Y","o","u"," ","a","r","e"," ","a"," ","h","e","l","p","f","u","l"," ","a","n","d"," ","f",
    "r","i","e","n","d","l","y"," ","A","I"," ","a","s","s","i","s","t","a","n","t","."," ","P",
    "l","e","a","s","e"," ","a","n","s","w","e","r"," ","t","h","e"," ","u","s","e","r","'","s",
    " ","q","u","e","s","t","i","o","n"," ","c","l","e","a","r","l","y"," ","a","n","d"," ","h",
    "e","l","p","f","u","l","l","y",".","\n","\n","U","s","e","r"," ","q","u","e","s","t","i",
    "o","n",":"," ","{","u","s","e","r","I","n","p","u","t","}","\n","\n","P","l","e","a","s",
    "e"," ","p","r","o","v","i","d","e"," ","a"," ","c","l","e","a","r"," ","a","n","d"," ","h",
    "e","l","p","f","u","l"," ","r","e","s","p","o","n","s","e",":">>

Template_code ==
    <<"Y","o","u"," ","a","r","e"," ","a","n"," ","e","x","p","e","r","t"," ","p","r","o","g","r",
    "a","m","m","e","r"," ","a","n","d"," ","c","o","d","i","n","g"," ","m","e","n","t","o","r",
    "."," ","H","e","l","p"," ","t","h","e"," ","u","s","e","r"," ","w","i","t","h"," ","t","h",
    "e","i","r"," ","p","r","o","g","r","a","m","m","i","n","g"," ","q","u","e","s","t","i","o",
    "n"," ","o","r"," ","p","r","o","b","l","e","m",".","\n","\n","P","r","o","g","r","a","m",
    "m","i","n","g"," ","q","u","e","s","t","i","o","n",":"," ","{","u","s","e","r","I","n","p",
    "u","t","}","\n","\n","P","l","e","a","s","e"," ","p","r","o","v","i","d","e",":","\n","1",
    "."," ","A"," ","c","l","e","a","r"," ","e","x","p","l","a","n","a","t","i","o","n","\n",
    "2","."," ","C","o","d","e"," ","e","x","a","m","p","l","e","s"," ","i","f"," ","n","e","e",
    "d","e","d","\n","3","."," ","B","e","s","t"," ","p","r","a","c","t","i","c","e","s"," ",
    "o","r"," ","t","i","p","s","\n","\n","R","e","s","p","o","n","s","e",":">>

Template_creative ==
    <<"Y","o","u"," ","a","r","e"," ","a"," ","c","r","e","a","t","i","v","e"," ","w","r","i","t",
    "i","n","g"," ","a","s","s","i","s","t","a","n","t","."," ","H","e","l","p"," ","t","h","e",
    " ","u","s","e","r"," ","w","i","t","h"," ","c","r","e","a","t","i","v","e"," ","t","a","s",
    "k","s"," ","l","i","k","e"," ","s","t","o","r","i","e","s",","," ","p","o","e","m","s",",",
    " ","o","r"," ","c","r","e","a","t","i","v","e"," ","i","d","e","a","s",".","\n","\n","C",
    "r","e","a","t","i","v","e"," ","r","e","q","u","e","s","t",":"," ","{","u","s","e","r","I",
    "n","p","u","t","}","\n","\n","P","l","e","a","s","e"," ","b","e"," ","i","m","a","g","i",
    "n","a","t","i","v","e",","," ","e","n","g","a","g","i","n","g",","," ","a","n","d"," ","h",
    "e","l","p"," ","b","r","i","n","g"," ","t","h","e","i","r"," ","c","r","e","a","t","i","v",
    "e"," ","v","i","s","i","o","n"," ","t","o"," ","l","i","f","e",":">>

Template_qa ==
    <<"Y","o","u"," ","a","r","e"," ","a"," ","k","n","o","w","l","e","d","g","e","a","b","l","e",
    " ","e","x","p","e","r","t","."," ","A","n","s","w","e","r"," ","t","h","e"," ","u","s","e",
    "r","'","s"," ","q","u","e","s","t","i","o","n"," ","w","i","t","h"," ","a","c","c","u","r",
    "a","t","e",","," ","w","e","l","l","-","s","t","r","u","c","t","u","r","e","d"," ","i","n",
    "f","o","r","m","a","t","i","o","n",".","\n","\n","Q","u","e","s","t","i","o","n",":"," ",
    "{","u","s","e","r","I","n","p","u","t","}","\n","\n","P","l","e","a","s","e"," ","p","r",
    "o","v","i","d","e",":","\n","-"," ","A"," ","d","i","r","e","c","t"," ","a","n","s","w",
    "e","r","\n","-"," ","S","u","p","p","o","r","t","i","n","g"," ","d","e","t","a","i","l",
    "s","\n","-"," ","R","e","l","e","v","a","n","t"," ","c","o","n","t","e","x","t"," ","i",
    "f"," ","h","e","l","p","f","u","l","\n","\n","A","n","s","w","e","r",":">>

Preamble_precise ==
    <<"Y","o","u"," ","a","r","e"," ","a"," ","h","e","l","p","f","u","l"," ","a","n","d"," ","p",
    "r","e","c","i","s","e"," ","a","s","s","i","s","t","a","n","t","."," ","P","r","o","v","i",
    "d","e"," ","a","c","c","u","r","a","t","e"," ","a","n","d"," ","f","a","c","t","u","a","l",
    " ","r","e","s","p","o","n","s","e","s",".">>

Preamble_balanced ==
    <<"Y","o","u"," ","a","r","e"," ","a"," ","h","e","l","p","f","u","l"," ","a","s","s","i","s",
    "t","a","n","t","."," ","B","e"," ","i","n","f","o","r","m","a","t","i","v","e"," ","a","n",
    "d"," ","c","o","n","v","e","r","s","a","t","i","o","n","a","l",".">>

Preamble_creative ==
    <<"Y","o","u"," ","a","r","e"," ","a"," ","c","r","e","a","t","i","v","e"," ","a","n","d"," ",
    "i","m","a","g","i","n","a","t","i","v","e"," ","a","s","s","i","s","t","a","n","t","."," ",
    "F","e","e","l"," ","f","r","e","e"," ","t","o"," ","b","e"," ","e","x","p","r","e","s","s",
    "i","v","e"," ","a","n","d"," ","t","h","i","n","k"," ","o","u","t","s","i","d","e"," ","t",
    "h","e"," ","b","o","x",".">>

Marker ==
    <<"{","u","s","e","r","I","n","p","u","t","}">>

NO_RESPONSE ==
    <<"N","o"," ","r","e","s","p","o","n","s","e"," ","r","e","c","e","i","v","e","d">>


(* Texts the environment supplies: caller inputs and service replies. *)
Text_Hi ==
    <<"H","i">>

Text_Yo ==
    <<"Y","o">>

Text_terse ==
    <<"Y","o","u"," ","a","r","e"," ","t","e","r","s","e",".">>

Text_brief ==
    <<"B","e"," ","b","r","i","e","f",".">>

Text_Hello ==
    <<"H","e","l","l","o",".">>

Frag_Hel ==
    <<"H","e","l">>

Frag_lo ==
    <<"l","o">>

Text_sort ==
    <<"s","o","r","t"," ","a","n"," ","a","r","r","a","y">>

Template_summary ==
    <<"P","l","e","a","s","e"," ","s","u","m","m","a","r","i","z","e"," ","t","h","e"," ","f","o",
    "l","l","o","w","i","n","g"," ","t","e","x","t",":"," ","{","u","s","e","r","I","n","p","u",
    "t","}">>

Template_plain ==
    <<"T","e","l","l"," ","m","e"," ","a"," ","j","o","k","e",".">>

Template_twice ==
    <<"{","u","s","e","r","I","n","p","u","t","}","?"," ","A","g","a","i","n",":"," ","{","u","s",
    "e","r","I","n","p","u","t","}">>

(***************************************************************************)
(* templates.ts: the registry, lookup by name, substitution.               *)
(***************************************************************************)
Undefined == [undefined |-> TRUE]

promptTemplates ==
    << [name |-> "general", description |-> "General conversation and questions",
        template |-> Template_general],
       [name |-> "code", description |-> "Programming and coding help",
        template |-> Template_code],
       [name |-> "creative", description |-> "Creative writing and storytelling",
        template |-> Template_creative],
       [name |-> "qa", description |-> "Structured question and answer",
        template |-> Template_qa] >>

\* promptTemplates.find((t) => t.name === name): the first match, or undefined.
getTemplate(name) ==
    LET hits == {i \in 1..Len(promptTemplates) : promptTemplates[i].name = name}
    IN  IF hits = {} THEN Undefined
        ELSE promptTemplates[CHOOSE i \in hits : \A j \in hits : i <= j]

\* Does pat occur in s at position i (1-based)?
OccursAt(s, pat, i) ==
    /\ i >= 1
    /\ i + Len(pat) - 1 <= Len(s)
    /\ \A k \in 1..Len(pat) : s[i + k - 1] = pat[k]

\* String.prototype.indexOf, 1-based; 0 when pat does not occur in s.
IndexOf(s, pat) ==
    LET hits == {i \in 1..(Len(s) + 1) : OccursAt(s, pat, i)}
    IN  IF hits = {} THEN 0 ELSE CHOOSE i \in hits : \A j \in hits : i <= j

Includes(s, pat) == IndexOf(s, pat) # 0

\* The grave accent character, which a TLA+ string cannot hold.
Grave == "GRAVE"

\* ECMAScript GetSubstitution for a string pattern (no capture groups): in the
\* replacement text, $$ is a dollar sign, $& the matched text, $ and a grave
\* accent the text before the match, $ and an apostrophe the text after it;
\* every other character, a $ followed by anything else included, stands for
\* itself.
RECURSIVE GetSubstitution(_, _, _, _, _)
GetSubstitution(matched, str, position, replacement, i) ==
    IF i > Len(replacement) THEN <<>>
    ELSE IF replacement[i] = "$" /\ i < Len(replacement)
              /\ replacement[i + 1] \in {"$", "&", Grave, "'"}
         THEN (CASE replacement[i + 1] = "$" -> <<"$">>
                 [] replacement[i + 1] = "&" -> matched
                 [] replacement[i + 1] = Grave -> SubSeq(str, 1, position - 1)
                 [] replacement[i + 1] = "'" ->
                        SubSeq(str, position + Len(matched), Len(str)))
              \o GetSubstitution(matched, str, position, replacement, i + 2)
         ELSE <<replacement[i]>>
              \o GetSubstitution(matched, str, position, replacement, i + 1)

\* String.prototype.replace(pattern, replacement) with a string pattern: the
\* first occurrence only, the replacement text expanded by GetSubstitution.
StringReplace(str, pattern, replacement) ==
    LET position == IndexOf(str, pattern)
    IN  IF position = 0 THEN str
        ELSE SubSeq(str, 1, position - 1)
             \o GetSubstitution(pattern, str, position, replacement, 1)
             \o SubSeq(str, position + Len(pattern), Len(str))

\* An applyTemplate that puts the input behind a body that has no marker.
applyTemplate_AppendWhenAbsent(template, userInput) ==
    IF Includes(template.template, Marker)
    THEN StringReplace(template.template, Marker, userInput)
    ELSE template.template \o userInput

applyTemplate(template, userInput) ==
    StringReplace(template.template, Marker, userInput)

(***************************************************************************)
(* chatbot.ts: configuration objects.                                      *)
(***************************************************************************)
\* The own properties of an object that hold a value other than undefined.
Defined(obj) == DOMAIN obj \ {"undefined"}

\* The own properties of an object that hold undefined.
UndefinedProperties(obj) ==
    IF "undefined" \in DOMAIN obj THEN obj["undefined"] ELSE {}

\* The object whose properties hold the given values, or undefined.
Object(values, undefined) ==
    IF undefined = {} THEN values
    ELSE [k \in DOMAIN values \cup {"undefined"} |->
             IF k = "undefined" THEN undefined ELSE values[k]]

\* this.config.k: the property's value, undefined when the object has none or
\* holds undefined.
Get(cfg, k) == IF k \in Defined(cfg) THEN cfg[k] ELSE Undefined

\* { ...base, ...override }: every own property of override, those that hold
\* undefined included, then the rest of base.
ObjectSpread(base, override) ==
    LET values == (Defined(base) \ UndefinedProperties(override)) \cup Defined(override)
        undefined == (UndefinedProperties(base) \ Defined(override))
                     \cup UndefinedProperties(override)
    IN  Object([k \in values |-> IF k \in Defined(override) THEN override[k] ELSE base[k]],
               undefined)

\* cfg.k = v
SetProperty(cfg, k, v) ==
    Object([j \in Defined(cfg) \cup {k} |-> IF j = k THEN v ELSE cfg[j]],
           UndefinedProperties(cfg) \ {k})

\* cfg.k = undefined: k stays an own property, and holds undefined.
UnsetProperty(cfg, k) ==
    Object([j \in Defined(cfg) \ {k} |-> cfg[j]], UndefinedProperties(cfg) \cup {k})

\* The truthiness tests of the class: a text is truthy unless undefined or empty,
\* a name unless undefined or "", a flag when it is true.
TruthyText(cfg, k) == k \in Defined(cfg) /\ cfg[k] # <<>>

TruthyName(cfg, k) == k \in Defined(cfg) /\ cfg[k] # ""

TruthyFlag(cfg, k) == k \in Defined(cfg) /\ cfg[k] = TRUE

\* The defaults the constructor spreads the caller's configuration over.
DefaultConfig ==
    [model |-> "command-r-plus", temperature |-> 30, maxTokens |-> 500,
     enableStreaming |-> FALSE]

CHATBOT_PRESETS ==
    [precise  |-> [model |-> "command-r-plus", temperature |-> 0, maxTokens |-> 500,
                   preamble |-> Preamble_precise, enableStreaming |-> FALSE],
     balanced |-> [model |-> "command-r-plus", temperature |-> 30, maxTokens |-> 500,
                   preamble |-> Preamble_balanced, enableStreaming |-> FALSE],
     creative |-> [model |-> "command-r-plus", temperature |-> 100, maxTokens |-> 500,
                   preamble |-> Preamble_creative, enableStreaming |-> FALSE]]

ChatbotPreset == {"precise", "balanced", "creative"}

SystemMessage(text) == [role |-> "system", content |-> text]

UserMessage(text) == [role |-> "user", content |-> text]

AssistantMessage(text) == [role |-> "assistant", content |-> text]

\* A session that starts without a system message whatever its preamble.
SeedHistory_Never(cfg) == <<>>

\* The history a session with configuration cfg starts from (constructor) and is
\* reset to (clearHistory): the preamble as a system message when it is truthy.
SeedHistory(cfg) ==
    IF TruthyText(cfg, "preamble") THEN <<SystemMessage(cfg.preamble)>> ELSE <<>>

constructor(cfg) ==
    LET merged == ObjectSpread(DefaultConfig, cfg)
    IN  [config |-> merged, conversationHistory |-> SeedHistory(merged)]

\* A fromPreset that constructs the session from the preset's preamble alone.
fromPreset_PreambleOnly(preset) ==
    constructor([preamble |-> CHATBOT_PRESETS[preset].preamble])

fromPreset(preset) == constructor(CHATBOT_PRESETS[preset])

\* const temp = this.config.temperature || 0.3, then the bands.
getPresetInfo(cfg) ==
    LET temp == IF "temperature" \in Defined(cfg) /\ cfg.temperature # 0
                THEN cfg.temperature ELSE 30
    IN  IF temp = 0 THEN [label |-> "precise (focused on accuracy)"]
        ELSE IF temp <= 30 THEN [label |-> "balanced (general conversation)"]
        ELSE IF temp >= 100 THEN [label |-> "creative (imaginative responses)"]
        ELSE [label |-> "custom", temperature |-> temp]

(***************************************************************************)
(* chatbot.ts: the conversation history.                                   *)
(***************************************************************************)
NotSystem(msg) == msg.role # "system"

\* formatMessagesForAPI without its filter.
formatMessagesForAPI_NoFilter(history) ==
    [i \in 1..Len(history) |-> [role |-> history[i].role, content |-> history[i].content]]

formatMessagesForAPI(history) ==
    LET kept == SelectSeq(history, NotSystem)
    IN  [i \in 1..Len(kept) |-> [role |-> kept[i].role, content |-> kept[i].content]]

\* [...this.conversationHistory]: a new array that holds the message objects of
\* the internal array.  An element of the returned array is a reference to the
\* object at that index of the internal array.
getConversationHistory(history) == [i \in 1..Len(history) |-> [ref |-> i]]

\* clearHistory that only empties the array.
clearHistory_NoReseed(cfg) == <<>>

clearHistory(cfg) == SeedHistory(cfg)

\* A setPreamble that replaces the configuration by one that holds the preamble only.
setPreambleConfig_Replace(cfg, preamble) == [preamble |-> preamble]

setPreambleConfig(cfg, preamble) == SetProperty(cfg, "preamble", preamble)

\* setPreamble without its filter: the old system message stays in the history.
setPreambleHistory_KeepOld(history, preamble) ==
    <<SystemMessage(preamble)>> \o history

setPreambleHistory(history, preamble) ==
    <<SystemMessage(preamble)>> \o SelectSeq(history, NotSystem)

\* A setTemplate that activates whatever name it is given.
setTemplate_Unchecked(cfg, templateName) ==
    [config |-> SetProperty(cfg, "activeTemplate", templateName), returns |-> TRUE]

\* setTemplate: the configuration after the call, and the value returned.
setTemplate(cfg, templateName) ==
    IF getTemplate(templateName) # Undefined
    THEN [config |-> SetProperty(cfg, "activeTemplate", templateName), returns |-> TRUE]
    ELSE [config |-> cfg, returns |-> FALSE]

\* A clearTemplate that leaves the active template in place.
clearTemplate_Keep(cfg) == cfg

clearTemplate(cfg) == UnsetProperty(cfg, "activeTemplate")

updateConfig(cfg, newConfig) == ObjectSpread(cfg, newConfig)

\* return { ...this.config }
getConfig(cfg) == ObjectSpread(<<>>, cfg)

\* A sendTemplatedMessage that ignores the active template.
finalMessage_Raw(cfg, userInput) == userInput

\* sendTemplatedMessage: the text handed to sendMessage.
finalMessage(cfg, userInput) ==
    IF TruthyName(cfg, "activeTemplate") /\ getTemplate(cfg.activeTemplate) # Undefined
    THEN applyTemplate(getTemplate(cfg.activeTemplate), userInput)
    ELSE userInput

\* sendMessage that does not repeat a user message already at the end of the history.
pushUserMessage_Dedup(history, message) ==
    IF Len(history) > 0 /\ history[Len(history)] = UserMessage(message)
    THEN history
    ELSE Append(history, UserMessage(message))

\* sendMessage that puts the user message in front of the history.
pushUserMessage_Unshift(history, message) == <<UserMessage(message)>> \o history

\* sendMessage: the history once the user message is pushed.
pushUserMessage(history, message) == Append(history, UserMessage(message))

\* A request whose temperature is read as getPresetInfo reads it: || 0.3.
chatRequest_DefaultedTemperature(cfg, history, api) ==
    [api |-> api, model |-> Get(cfg, "model"),
     messages |-> formatMessagesForAPI(history),
     temperature |-> IF Get(cfg, "temperature") = 0 THEN 30 ELSE Get(cfg, "temperature"),
     maxTokens |-> Get(cfg, "maxTokens")]

\* The request sendRegularMessage / sendStreamingMessage hands to the client.
chatRequest(cfg, history, api) ==
    [api |-> api, model |-> Get(cfg, "model"),
     messages |-> formatMessagesForAPI(history),
     temperature |-> Get(cfg, "temperature"), maxTokens |-> Get(cfg, "maxTokens")]

\* response.message?.content?.[0]?.text
ResponseText(response) ==
    IF "message" \notin DOMAIN response THEN Undefined
    ELSE IF "content" \notin DOMAIN response.message THEN Undefined
    ELSE IF Len(response.message.content) = 0 THEN Undefined
    ELSE IF "text" \notin DOMAIN response.message.content[1] THEN Undefined
    ELSE response.message.content[1].text

\* A response handler whose fallback is the empty text.
assistantMessage_Empty(response) ==
    IF ResponseText(response) = Undefined THEN <<>> ELSE ResponseText(response)

\* const assistantMessage = response.message?.content?.[0]?.text || "No response received"
assistantMessage(response) ==
    LET text == ResponseText(response)
    IN  IF text = Undefined \/ text = <<>> THEN NO_RESPONSE ELSE text

\* const deltaText = chunk.delta?.message?.content?.text || ""
deltaText(chunk) ==
    IF "delta" \notin DOMAIN chunk THEN <<>>
    ELSE IF "message" \notin DOMAIN chunk.delta THEN <<>>
    ELSE IF "content" \notin DOMAIN chunk.delta.message THEN <<>>
    ELSE IF "text" \notin DOMAIN chunk.delta.message.content THEN <<>>
    ELSE chunk.delta.message.content.text

\* A streaming loop that keeps only the latest fragment.
accumulate_Overwrite(fullResponse, delta) == delta

\* fullResponse += deltaText
accumulate(fullResponse, delta) == fullResponse \o delta

\* The error sendMessage throws from its catch block.
GenericError == [message |-> "Failed to get response from Cohere API"]

\* A catch block that throws the error it caught.
thrownError_Rethrown(error) == [message |-> error]

\* catch (error) { console.error(...); throw new Error("Failed to ...") }
thrownError(error) == GenericError

(***************************************************************************)
(* The environment: what callers pass in and what the chat service returns. *)
(***************************************************************************)
MaxHistory == 4

MaxChunks == 2

\* Texts passed to sendMessage, and to sendTemplatedMessage.
UserInputs == {Text_Hi, Text_Yo}

TemplatedInputs == {Text_Hi}

PreambleInputs == {Text_terse, <<>>}

TemplateNameInputs == {"code", "nonexistent"}

\* Configurations handed to the constructor.
ConstructorConfigs ==
    { <<>>,
      [preamble |-> Text_terse],
      [activeTemplate |-> "nonexistent"] }

PresetInputs == {"balanced"}

\* Partial configurations handed to updateConfig.
ConfigUpdates ==
    { [enableStreaming |-> TRUE],
      [enableStreaming |-> FALSE],
      [preamble |-> Text_brief],
      [activeTemplate |-> "nonexistent"] }

\* Responses of client.chat: a text, an empty text, no message at all.
ChatResponses ==
    { [message |-> [content |-> <<[text |-> Text_Hello]>>]],
      [message |-> [content |-> <<[text |-> <<>>]>>]],
      [id |-> "r1"] }

\* The text fragments of a stream, in the order a stream delivers them.
StreamScript == <<Frag_Hel, Frag_lo, Frag_Hel, Frag_lo>>

NonEmpty(text) == text # <<>>

\* The chunks a stream can deliver once it has delivered n text fragments: the
\* next fragment, a content-delta without text, or a chunk of another type.
StreamChunks(n) ==
    { [type |-> "content-delta",
       delta |-> [message |-> [content |-> [text |-> StreamScript[n + 1]]]]],
      [type |-> "content-delta", delta |-> [message |-> [role |-> "assistant"]]],
      [type |-> "message-start"] }

\* What the service can fail with.
ServiceErrors == {"network"}

(***************************************************************************)
(* The session.  config and conversationHistory are the private fields of   *)
(* one CohereChatbot.  pending holds the sendMessage calls that are waiting *)
(* on the service, oldest first: each with the request it handed to the     *)
(* client, the history it started from, the chunks its stream has           *)
(* delivered, and the locals of its streaming loop.  last records the       *)
(* latest call or completion seen by the caller: the operation, its         *)
(* argument and its outcome.                                                *)
(***************************************************************************)
Constructed(bot, how) ==
    /\ config = bot.config
    /\ conversationHistory = bot.conversationHistory
    /\ pending = <<>>
    /\ last = [op |-> how, outcome |-> "returned"]

Init ==
    \/ \E c \in ConstructorConfigs : Constructed(constructor(c), "constructor")
    \/ \E p \in PresetInputs : Constructed(fromPreset(p), "fromPreset")

Idle == pending = <<>>

RemoveAt(seq, i) == SubSeq(seq, 1, i - 1) \o SubSeq(seq, i + 1, Len(seq))

\* sendMessage up to its first await: the user message is pushed, the request is
\* built from the history and the configuration and handed to chat or chatStream.
Dispatch(op, input, message) ==
    LET api == IF TruthyFlag(config, "enableStreaming") THEN "chatStream" ELSE "chat"
        history == pushUserMessage(conversationHistory, message)
    IN  /\ Len(conversationHistory) + 2 <= MaxHistory
        /\ conversationHistory' = history
        /\ pending' = Append(pending,
                [op |-> op, input |-> input, message |-> message,
                 h0 |-> conversationHistory, api |-> api,
                 request |-> chatRequest(config, history, api), calls |-> <<api>>,
                 chunks |-> 0, delivered |-> <<>>, fullResponse |-> <<>>,
                 stdout |-> <<>>])
        /\ last' = [op |-> op, outcome |-> "dispatched", input |-> input]
        /\ UNCHANGED config

SendMessage(message) == Dispatch("sendMessage", message, message)

SendTemplatedMessage(userInput) ==
    Dispatch("sendTemplatedMessage", userInput, finalMessage(config, userInput))

\* The turn's call returns text: the assistant message is pushed and text returned.
Return(i, text, got) ==
    /\ conversationHistory' = Append(conversationHistory, AssistantMessage(text))
    /\ pending' = RemoveAt(pending, i)
    /\ last' = [op |-> pending[i].op, outcome |-> "returned", value |-> text,
                input |-> pending[i].input, api |-> pending[i].api, got |-> got,
                calls |-> pending[i].calls]
    /\ UNCHANGED config

\* sendRegularMessage after its await: client.chat resolved with response.
ChatResolves(i, response) ==
    /\ i \in 1..Len(pending)
    /\ pending[i].api = "chat"
    /\ Return(i, assistantMessage(response), response)

\* A streaming loop that writes nothing while the stream is delivering.
stdoutWrite_Buffered(stdout, text) == stdout

\* process.stdout.write(deltaText)
stdoutWrite(stdout, text) == Append(stdout, text)

\* sendStreamingMessage, one turn of its for-await loop.
StreamChunk(i, chunk) ==
    /\ i \in 1..Len(pending)
    /\ pending[i].api = "chatStream"
    /\ pending[i].chunks < MaxChunks
    /\ pending' = [pending EXCEPT ![i] =
            IF chunk.type = "content-delta"
            THEN [@ EXCEPT !.chunks = @ + 1,
                           !.delivered = Append(@, chunk),
                           !.stdout = stdoutWrite(@, deltaText(chunk)),
                           !.fullResponse = accumulate(@, deltaText(chunk))]
            ELSE [@ EXCEPT !.chunks = @ + 1,
                           !.delivered = Append(@, chunk)]]
    /\ UNCHANGED <<config, conversationHistory, last>>

\* A streaming path that answers with the placeholder when no text arrived.
streamedMessage_Placeholder(fullResponse) ==
    IF fullResponse = <<>> THEN NO_RESPONSE ELSE fullResponse

\* The content sendStreamingMessage commits and returns: fullResponse as it is.
streamedMessage(fullResponse) == fullResponse

\* sendStreamingMessage after its loop: the stream ended normally.
StreamEnds(i) ==
    /\ i \in 1..Len(pending)
    /\ pending[i].api = "chatStream"
    /\ Return(i, streamedMessage(pending[i].fullResponse), pending[i].chunks)

\* A catch block that calls the service once more, on the path that failed.
catchCalls_Retry(turn) == <<turn.api>>

\* The calls to the service that the catch block of sendMessage makes: none.
catchCalls(turn) == <<>>

\* A catch block that commits the text the stream had delivered before it threw.
catchHistory_KeepPartial(history, turn) ==
    Append(history, AssistantMessage(turn.fullResponse))

\* The history after the catch block of sendMessage: the block does not touch it.
catchHistory(history, turn) == history

\* The catch block of sendMessage: chat or chatStream rejected, or the stream
\* threw while it was iterated.  What the stream wrote to stdout stays written.
DispatchFails(i, cause) ==
    /\ i \in 1..Len(pending)
    /\ pending' = RemoveAt(pending, i)
    /\ last' = [op |-> pending[i].op, outcome |-> "threw", error |-> thrownError(cause),
                input |-> pending[i].input, api |-> pending[i].api, cause |-> cause,
                calls |-> pending[i].calls \o catchCalls(pending[i]),
                stdout |-> pending[i].stdout]
    /\ conversationHistory' = catchHistory(conversationHistory, pending[i])
    /\ UNCHANGED config

SetPreamble(preamble) ==
    /\ config' = setPreambleConfig(config, preamble)
    /\ conversationHistory' = setPreambleHistory(conversationHistory, preamble)
    /\ last' = [op |-> "setPreamble", outcome |-> "returned", input |-> preamble]
    /\ UNCHANGED pending

ClearHistory ==
    /\ conversationHistory' = clearHistory(config)
    /\ last' = [op |-> "clearHistory", outcome |-> "returned"]
    /\ UNCHANGED <<config, pending>>

SetTemplate(templateName) ==
    /\ config' = setTemplate(config, templateName).config
    /\ last' = [op |-> "setTemplate", outcome |-> "returned", input |-> templateName,
                value |-> setTemplate(config, templateName).returns]
    /\ UNCHANGED <<conversationHistory, pending>>

ClearTemplate ==
    /\ config' = clearTemplate(config)
    /\ last' = [op |-> "clearTemplate", outcome |-> "returned"]
    /\ UNCHANGED <<conversationHistory, pending>>

UpdateConfig(newConfig) ==
    /\ config' = updateConfig(config, newConfig)
    /\ last' = [op |-> "updateConfig", outcome |-> "returned", input |-> newConfig]
    /\ UNCHANGED <<conversationHistory, pending>>

\* A caller that awaits every turn, as the interactive loop does: no operation is
\* invoked while a sendMessage call is waiting on the service.
Next ==
    \/ \E m \in UserInputs : Idle /\ SendMessage(m)
    \/ \E u \in TemplatedInputs : Idle /\ SendTemplatedMessage(u)
    \/ \E i \in 1..Len(pending), r \in ChatResponses : ChatResolves(i, r)
    \/ \E i \in 1..Len(pending) : \E c \in StreamChunks(Len(SelectSeq(pending[i].stdout, NonEmpty))) : StreamChunk(i, c)
    \/ \E i \in 1..Len(pending) : StreamEnds(i)
    \/ \E i \in 1..Len(pending), e \in ServiceErrors : DispatchFails(i, e)
    \/ \E p \in PreambleInputs : Idle /\ SetPreamble(p)
    \/ Idle /\ ClearHistory
    \/ \E n \in TemplateNameInputs : Idle /\ SetTemplate(n)
    \/ Idle /\ ClearTemplate
    \/ \E u \in ConfigUpdates : Idle /\ UpdateConfig(u)

Spec == Init /\ [][Next]_vars

(***************************************************************************)
(* getPresetInfo over the temperatures of the documented range.             *)
(***************************************************************************)
MaxTemperature == 100

GetPresetInfo ==
    /\ last' = [op |-> "getPresetInfo", outcome |-> "returned",
                value |-> getPresetInfo(config)]
    /\ UNCHANGED <<config, conversationHistory, pending>>

InitPreset ==
    \/ \E t \in 0..MaxTemperature :
          Constructed(constructor([temperature |-> t]), "constructor")
    \/ \E p \in ChatbotPreset : Constructed(fromPreset(p), "fromPreset")

NextPreset == Idle /\ GetPresetInfo

SpecPreset == InitPreset /\ [][NextPreset]_vars

(***************************************************************************)
(* applyTemplate over templates and user inputs.                            *)
(***************************************************************************)
MaxInputLen == 2

RenderChars == {"a", "$", "&", Grave, "'", "1", "{"}

RenderInputs ==
    UNION {[1..n -> RenderChars] : n \in 0..MaxInputLen} \cup {Marker, Text_sort}

\* Templates a caller builds itself: the one of the interface's documentation,
\* one without a marker, one with two markers.
CallerTemplates ==
    { [name |-> "summary", description |-> "Summarize long texts",
       template |-> Template_summary],
      [name |-> "plain", description |-> "No marker", template |-> Template_plain],
      [name |-> "twice", description |-> "Two markers", template |-> Template_twice] }

\* Bodies that come close to the marker without holding it: the marker without
\* its closing brace, the marker in lower case; and the empty body.
Template_open ==
    <<"A","s","k",":"," ","{","u","s","e","r","I","n","p","u","t">>

Template_lower ==
    <<"A","s","k",":"," ","{","u","s","e","r","i","n","p","u","t","}">>

MarkerlessTemplates ==
    { [name |-> "open", description |-> "Marker left open", template |-> Template_open],
      [name |-> "lower", description |-> "Marker in lower case", template |-> Template_lower],
      [name |-> "empty", description |-> "Empty body", template |-> <<>>] }

RegistryTemplates == {promptTemplates[i] : i \in 1..Len(promptTemplates)}

ApplyTemplate(template, userInput) ==
    /\ last' = [op |-> "applyTemplate", outcome |-> "returned",
                template |-> template, input |-> userInput,
                value |-> applyTemplate(template, userInput)]
    /\ UNCHANGED <<config, conversationHistory, pending>>

InitTemplate == Constructed(constructor(<<>>), "constructor")

NextTemplate ==
    \/ \E t \in CallerTemplates, u \in RenderInputs : ApplyTemplate(t, u)
    \/ \E t \in RegistryTemplates, u \in RenderInputs : ApplyTemplate(t, u)

SpecTemplate == InitTemplate /\ [][NextTemplate]_vars

(***************************************************************************)
(* A caller that edits the array getConversationHistory returned.           *)
(***************************************************************************)
\* The edits: on the returned array itself, or on a message it holds.
CopyEdits(history) ==
    {[kind |-> k] : k \in {"push", "pop", "reverse"}}
    \cup {[kind |-> "setContent", index |-> i, text |-> Text_brief] : i \in 1..Len(history)}
    \cup {[kind |-> "setRole", index |-> i, role |-> "system"] : i \in 1..Len(history)}

\* The internal array after the caller has taken a copy and applied edit to it.
\* An edit of the returned array leaves the internal array alone; an edit of an
\* element writes the object the element refers to.
historyAfterCopyEdit(history, edit) ==
    LET copy == getConversationHistory(history)
    IN  CASE edit.kind \in {"push", "pop", "reverse"} -> history
          [] edit.kind = "setContent" ->
                [history EXCEPT ![copy[edit.index].ref].content = edit.text]
          [] edit.kind = "setRole" ->
                [history EXCEPT ![copy[edit.index].ref].role = edit.role]

EditCopy(edit) ==
    /\ conversationHistory' = historyAfterCopyEdit(conversationHistory, edit)
    /\ last' = [op |-> "editCopy", outcome |-> "returned", input |-> edit,
                before |-> conversationHistory]
    /\ UNCHANGED <<config, pending>>

NextCopy ==
    \/ \E m \in UserInputs : Idle /\ SendMessage(m)
    \/ \E i \in 1..Len(pending), r \in ChatResponses : ChatResolves(i, r)
    \/ \E e \in CopyEdits(conversationHistory) : Idle /\ EditCopy(e)

SpecCopy == Init /\ [][NextCopy]_vars

(***************************************************************************)
(* A session that is constructed and then only driven by turns.             *)
(***************************************************************************)
\* Configurations of such a session: without a preamble, with one, with an
\* empty one, and the same with streaming.
TurnConfigs ==
    { <<>>,
      [preamble |-> Text_terse],
      [preamble |-> <<>>],
      [enableStreaming |-> TRUE],
      [preamble |-> Text_terse, enableStreaming |-> TRUE] }

InitTurns ==
    \/ \E c \in TurnConfigs : Constructed(constructor(c), "constructor")
    \/ \E p \in ChatbotPreset : Constructed(fromPreset(p), "fromPreset")

\* Responses of client.chat without text: no message, a message without
\* content, an empty content list, a content item without text, an empty text.
TextlessResponses ==
    { [id |-> "r1"],
      [message |-> [role |-> "assistant"]],
      [message |-> [content |-> <<>>]],
      [message |-> [content |-> <<[type |-> "text"]>>]],
      [message |-> [content |-> <<[text |-> <<>>]>>]] }

TurnResponses == ChatResponses \cup TextlessResponses

\* What the try block of sendMessage can throw: the rejection of chat or
\* chatStream, the TypeError of reading response.message off a response that is
\* not an object, an error of the stream while it is iterated.
FailureKinds == {"rejected", "TypeError", "stream error"}

Raises(turn, cause) ==
    CASE cause = "rejected" -> turn.chunks = 0
      [] cause = "TypeError" -> turn.api = "chat"
      [] cause = "stream error" -> turn.api = "chatStream"

NextTurns ==
    \/ \E m \in UserInputs : Idle /\ SendMessage(m)
    \/ \E i \in 1..Len(pending), r \in TurnResponses : ChatResolves(i, r)
    \/ \E i \in 1..Len(pending) : \E c \in StreamChunks(Len(SelectSeq(pending[i].stdout, NonEmpty))) : StreamChunk(i, c)
    \/ \E i \in 1..Len(pending) : StreamEnds(i)
    \/ \E i \in 1..Len(pending), e \in FailureKinds :
          Raises(pending[i], e) /\ DispatchFails(i, e)

SpecTurns == InitTurns /\ [][NextTurns]_vars

(***************************************************************************)
(* A session whose caller activates templates by name.                      *)
(***************************************************************************)
\* The names of the registry, case variants of them, a name with a trailing
\* space, the empty name, an unknown name.
TemplateNames ==
    {"general", "code", "creative", "qa", "Code", "QA", "code ", "", "nonexistent"}

NextTemplateNames ==
    \/ \E n \in TemplateNames : Idle /\ SetTemplate(n)
    \/ Idle /\ ClearTemplate
    \/ \E u \in TemplatedInputs : Idle /\ SendTemplatedMessage(u)
    \/ \E i \in 1..Len(pending), r \in ChatResponses : ChatResolves(i, r)

SpecTemplateNames == Init /\ [][NextTemplateNames]_vars

(***************************************************************************)
(* A session whose caller reads getPresetInfo between turns.                *)
(***************************************************************************)
InfoUpdates == { [temperature |-> 0], [maxTokens |-> 200, model |-> "command-r"],
                 [enableStreaming |-> TRUE] }

\* getPresetInfo is synchronous: it is also read while a turn waits.
NextInfo ==
    \/ GetPresetInfo
    \/ \E m \in TemplatedInputs : Idle /\ SendMessage(m)
    \/ \E i \in 1..Len(pending), r \in ChatResponses : ChatResolves(i, r)
    \/ \E i \in 1..Len(pending) : StreamEnds(i)
    \/ \E u \in InfoUpdates : Idle /\ UpdateConfig(u)

SpecInfo == InitPreset /\ [][NextInfo]_vars

(***************************************************************************)
(* A caller that does not await its turns: sendMessage returns a promise,   *)
(* and the caller may call the session again, or stop waiting for the       *)
(* promise, while the call is suspended at its await.                       *)
(***************************************************************************)
MaxPending == 2

\* The caller stops waiting for the turn pending[i] (a timeout of its own).  The
\* call stays suspended at its await: nothing of the session changes.
Abandon(i) ==
    /\ i \in 1..Len(pending)
    /\ last' = [op |-> pending[i].op, outcome |-> "abandoned",
                input |-> pending[i].input]
    /\ UNCHANGED <<config, conversationHistory, pending>>

\* The streams of these sessions are only seen to end or to throw.
NextAsync ==
    \/ \E m \in TemplatedInputs : Len(pending) < MaxPending /\ SendMessage(m)
    \/ \E i \in 1..Len(pending), r \in ChatResponses : ChatResolves(i, r)
    \/ \E i \in 1..Len(pending) : StreamEnds(i)
    \/ \E i \in 1..Len(pending), e \in ServiceErrors : DispatchFails(i, e)
    \/ \E i \in 1..Len(pending) : Abandon(i)
    \/ ClearHistory

SpecAsync == InitTurns /\ [][NextAsync]_vars

(***************************************************************************)
(* Two sessions of one process, and the preset catalog.  In this            *)
(* specification config holds the configuration objects of the process: the *)
(* entries of CHATBOT_PRESETS under their names, and this.config of each     *)
(* session under the session's name.  this.config of a session is an object *)
(* of its own, or a reference [ref |-> id] to another object.                *)
(* conversationHistory holds this.conversationHistory of each session, and   *)
(* pending the sendMessage calls of both sessions that wait on the service,  *)
(* oldest first.  last is not written: it keeps the value InitSessions gives *)
(* it, and StepOf says which session a step is of.                           *)
(***************************************************************************)
Sessions == {"a", "b"}

\* The configuration object a session's this.config refers to.
ConfigOf(objects, s) ==
    IF "ref" \in DOMAIN objects[s] THEN objects[objects[s].ref] ELSE objects[s]

\* this.config.k = v and the like: the object this.config refers to becomes cfg.
WriteConfig(objects, s, cfg) ==
    IF "ref" \in DOMAIN objects[s]
    THEN [objects EXCEPT ![objects[s].ref] = cfg]
    ELSE [objects EXCEPT ![s] = cfg]

\* A constructor that keeps the object it is given as this.config.
storedConfig_SameObject(objects, preset) == [ref |-> preset]

\* fromPreset and the constructor: this.config is a new object, the spread of
\* the catalog's entry over the defaults.
storedConfig(objects, preset) == constructor(objects[preset]).config

\* The presets the two sessions are created from: the same one for both.
PresetPairs == {<<"balanced", "balanced">>}

InitSessions ==
    \E pp \in PresetPairs :
        /\ config = [x \in ChatbotPreset \cup Sessions |->
                        IF x \in ChatbotPreset THEN CHATBOT_PRESETS[x]
                        ELSE IF x = "a" THEN storedConfig(CHATBOT_PRESETS, pp[1])
                        ELSE storedConfig(CHATBOT_PRESETS, pp[2])]
        /\ conversationHistory =
               [x \in Sessions |->
                   IF x = "a" THEN fromPreset(pp[1]).conversationHistory
                   ELSE fromPreset(pp[2]).conversationHistory]
        /\ pending = <<>>
        /\ last = [op |-> "fromPreset", outcome |-> "returned"]

SetPreambleOf(s, preamble) ==
    /\ UNCHANGED <<pending, last>>
    /\ config' = WriteConfig(config, s, setPreambleConfig(ConfigOf(config, s), preamble))
    /\ conversationHistory' =
           [conversationHistory EXCEPT ![s] = setPreambleHistory(@, preamble)]

SetTemplateOf(s, templateName) ==
    /\ UNCHANGED <<conversationHistory, pending, last>>
    /\ config' = WriteConfig(config, s, setTemplate(ConfigOf(config, s), templateName).config)

ClearTemplateOf(s) ==
    /\ UNCHANGED <<conversationHistory, pending, last>>
    /\ config' = WriteConfig(config, s, clearTemplate(ConfigOf(config, s)))

\* this.config = { ...this.config, ...newConfig }: a new object of the session.
UpdateConfigOf(s, newConfig) ==
    /\ UNCHANGED <<conversationHistory, pending, last>>
    /\ config' = [config EXCEPT ![s] = updateConfig(ConfigOf(config, s), newConfig)]

ClearHistoryOf(s) ==
    /\ UNCHANGED <<config, pending, last>>
    /\ conversationHistory' =
           [conversationHistory EXCEPT ![s] = clearHistory(ConfigOf(config, s))]

\* sendMessage of session s up to its first await: the user message is pushed
\* and the request is handed to chat or chatStream.  The call then waits, and
\* any call on either session may run before the service answers.  The request
\* is the one Dispatch builds; the record of the waiting call does not keep it.
\* The bounds: at most MaxPending calls wait, and the messages of turns the two
\* histories hold, with the answers awaited and the two messages of this call,
\* number at most MaxHistory.
SendMessageOf(s, message) ==
    LET api == IF TruthyFlag(ConfigOf(config, s), "enableStreaming")
               THEN "chatStream" ELSE "chat"
        history == pushUserMessage(conversationHistory[s], message)
        turns(t) == SelectSeq(conversationHistory[t], LAMBDA m : m.role # "system")
        held == Len(turns("a")) + Len(turns("b"))
    IN  /\ UNCHANGED <<config, last>>
        /\ Len(pending) < MaxPending
        /\ held + Len(pending) + 2 <= MaxHistory
        /\ pending' = Append(pending,
                [session |-> s, op |-> "sendMessage", input |-> message,
                 message |-> message, api |-> api,
                 chunks |-> 0, fullResponse |-> <<>>, stdout |-> <<>>])
        /\ conversationHistory' = [conversationHistory EXCEPT ![s] = history]

\* The call pending[i] returns text: the assistant message is pushed onto the
\* history of its session as it is now.
ReturnOf(i, text) ==
    /\ UNCHANGED <<config, last>>
    /\ pending' = RemoveAt(pending, i)
    /\ conversationHistory' =
           [conversationHistory EXCEPT ![pending[i].session] =
               Append(@, AssistantMessage(text))]

\* sendRegularMessage after its await: client.chat resolved with response.
ChatResolvesOf(i, response) ==
    /\ i \in 1..Len(pending)
    /\ pending[i].api = "chat"
    /\ ReturnOf(i, assistantMessage(response))

\* sendStreamingMessage, one turn of its for-await loop: the text of a
\* content-delta chunk is written to stdout and added to fullResponse.  The
\* history is not touched.
StreamChunkOf(i, chunk) ==
    /\ UNCHANGED <<config, conversationHistory, last>>
    /\ i \in 1..Len(pending)
    /\ pending[i].api = "chatStream"
    /\ pending[i].chunks < MaxChunks
    /\ pending' = [pending EXCEPT ![i] =
            IF chunk.type = "content-delta"
            THEN [@ EXCEPT !.chunks = @ + 1,
                           !.stdout = stdoutWrite(@, deltaText(chunk)),
                           !.fullResponse = accumulate(@, deltaText(chunk))]
            ELSE [@ EXCEPT !.chunks = @ + 1]]

\* sendStreamingMessage after its loop: the stream has ended, and fullResponse
\* is pushed as the assistant message and returned.
StreamEndsOf(i) ==
    /\ i \in 1..Len(pending)
    /\ pending[i].api = "chatStream"
    /\ ReturnOf(i, streamedMessage(pending[i].fullResponse))

\* The catch block of sendMessage: the call throws the generic error and the
\* history of its session keeps what it holds.
DispatchFailsOf(i, cause) ==
    /\ UNCHANGED <<config, last>>
    /\ i \in 1..Len(pending)
    /\ Raises(pending[i], cause)
    /\ pending' = RemoveAt(pending, i)
    /\ conversationHistory' =
           [conversationHistory EXCEPT ![pending[i].session] =
               catchHistory(@, pending[i])]

\* Partial configurations handed to updateConfig: the streaming flag switched
\* on, the template named without setTemplate.
SessionUpdates ==
    { [enableStreaming |-> TRUE], [activeTemplate |-> "code"] }

\* The chunk a stream of these sessions delivers after n chunks: the next of
\* the text fragments Hel, lo, if there is one.
SessionChunks(n) ==
    LET fragments == <<Frag_Hel, Frag_lo>>
    IN  { [type |-> "content-delta",
           delta |-> [message |-> [content |-> [text |-> fragments[k]]]]] :
          k \in {n + 1} \cap (1..Len(fragments)) }

\* A step of session s: one of its operations is called, or the answer, a chunk
\* or a failure arrives for one of its calls that wait.  The service answers
\* Hello on chat as on chatStream, where a stream delivers its fragments and
\* ends, or throws on the way.
StepOf(s) ==
    LET response == [message |-> [content |-> <<[text |-> Frag_Hel \o Frag_lo]>>]]
        calls == {i \in 1..Len(pending) : pending[i].session = s}
    IN  \/ SetPreambleOf(s, Text_terse)
        \/ SetTemplateOf(s, "code")
        \/ ClearTemplateOf(s)
        \/ \E u \in SessionUpdates : UpdateConfigOf(s, u)
        \/ ClearHistoryOf(s)
        \/ SendMessageOf(s, Text_Hi)
        \/ \E i \in calls : ChatResolvesOf(i, response)
        \/ \E i \in calls : \E c \in SessionChunks(pending[i].chunks) : StreamChunkOf(i, c)
        \/ \E i \in calls : SessionChunks(pending[i].chunks) = {} /\ StreamEndsOf(i)
        \/ \E i \in calls, e \in FailureKinds : DispatchFailsOf(i, e)

\* No call is awaited: while a sendMessage call waits on the service, any
\* operation of either session runs, and the service answers any of the calls
\* that wait.
NextSessions == \E s \in Sessions : StepOf(s)

SpecSessions == InitSessions /\ [][NextSessions]_vars

(***************************************************************************)
(* Properties of the session under Spec.                                    *)
(***************************************************************************)
SystemIndexes == {i \in 1..Len(conversationHistory) : conversationHistory[i].role = "system"}

\* C1: the history holds at most one system message, and a system message is
\* the first element.
C1_SystemMessageFirst ==
    /\ Cardinality(SystemIndexes) <= 1
    /\ SystemIndexes \subseteq {1}

\* C1 witness: setPreamble has replaced the preamble of a history that holds a
\* system message, a user message and an assistant message.
C1_Witness ==
    /\ last.op = "setPreamble"
    /\ Len(conversationHistory) >= 3
    /\ conversationHistory[1] = SystemMessage(Text_terse)
    /\ Get(config, "preamble") = Text_terse
    /\ \E i \in 2..Len(conversationHistory) : conversationHistory[i].role = "assistant"

\* A step in which the turn pending[i] ends by throwing / by returning.
Throws(i) ==
    /\ i \in 1..Len(pending)
    /\ pending' = RemoveAt(pending, i)
    /\ last'.outcome = "threw"

Returns(i) ==
    /\ i \in 1..Len(pending)
    /\ pending' = RemoveAt(pending, i)
    /\ last'.outcome = "returned"

\* A step in which sendMessage(m) is called right after a call that threw.
Retries ==
    /\ last.outcome = "threw"
    /\ last'.outcome = "dispatched"
    /\ last'.op = "sendMessage"

\* C2: when a turn fails, the history is the history the call started from plus
\* the turn's user message and nothing else; a sendMessage(m) called after the
\* failure appends another user message m behind the one that is already there.
C2_FailureKeepsUserMessage ==
    [][ /\ \A i \in 1..Len(pending) : Throws(i) =>
              /\ conversationHistory' =
                     Append(pending[i].h0, UserMessage(pending[i].message))
              /\ last'.error = GenericError
        /\ Retries =>
              /\ conversationHistory' =
                     Append(conversationHistory, UserMessage(last'.input))
              /\ Len(conversationHistory') = Len(conversationHistory) + 1
      ]_vars

\* C2 witness: a streaming sendMessage(m) failed, then sendMessage(m) again failed:
\* the history ends with the user message m twice.
C2_Witness ==
    /\ last.outcome = "threw"
    /\ last.op = "sendMessage"
    /\ last.api = "chatStream"
    /\ Len(conversationHistory) >= 3
    /\ conversationHistory[Len(conversationHistory)] = UserMessage(last.input)
    /\ conversationHistory[Len(conversationHistory) - 1] = UserMessage(last.input)

\* C3: when a turn returns, the history is the history the call started from,
\* then the turn's user message, then an assistant message holding the returned
\* text; the returned text is the text the service delivered.
C3_SuccessAppendsBoth ==
    [][ \A i \in 1..Len(pending) : Returns(i) =>
            /\ conversationHistory' =
                   pending[i].h0 \o <<UserMessage(pending[i].message),
                                      AssistantMessage(last'.value)>>
            /\ pending[i].api = "chatStream" => last'.value = pending[i].fullResponse
            /\ (pending[i].api = "chat" /\ ResponseText(last'.got) # Undefined
                   /\ ResponseText(last'.got) # <<>>)
                   => last'.value = ResponseText(last'.got)
      ]_vars

\* C3 witness: a second sendMessage turn has returned.
C3_Witness ==
    /\ last.op = "sendMessage"
    /\ last.outcome = "returned"
    /\ last.value = Text_Hello
    /\ Len(conversationHistory) = 4
    /\ conversationHistory[3] = UserMessage(last.input)
    /\ conversationHistory[4] = AssistantMessage(Text_Hello)
    /\ conversationHistory[1] # conversationHistory[3]

\* C4: the messages of a request hold no system entry; when the request is
\* handed to the client they are the user and assistant messages of the history,
\* in order, and the last one is the user message the turn pushed.
C4_OutboundWithoutSystem ==
    \A i \in 1..Len(pending) :
        LET sent == pending[i].request.messages
            kept == {k \in 1..Len(conversationHistory) :
                        conversationHistory[k].role \in {"user", "assistant"}}
        IN  /\ \A k \in 1..Len(sent) : sent[k].role \in {"user", "assistant"}
            /\ last.outcome = "dispatched" =>
                 /\ Len(sent) = Cardinality(kept)
                 /\ \A k \in kept :
                       LET n == Cardinality({j \in kept : j <= k})
                       IN  sent[n] = [role |-> conversationHistory[k].role,
                                      content |-> conversationHistory[k].content]
                 /\ sent[Len(sent)] = [role |-> "user", content |-> pending[i].message]

\* C4 witness: a request is out while the history starts with a system message
\* and holds an earlier user message.
C4_Witness ==
    /\ Len(pending) = 1
    /\ last.outcome = "dispatched"
    /\ conversationHistory[1].role = "system"
    /\ Len(pending[1].request.messages) = 2

\* C10: after clearHistory the history is the one a new session with the current
\* configuration starts from: the preamble as the only message when the
\* configuration has a non-empty preamble, and no message otherwise.
C10_ClearReseeds ==
    last.op = "clearHistory" =>
        /\ conversationHistory = constructor(config).conversationHistory
        /\ \A i \in 1..Len(conversationHistory) :
              conversationHistory[i].role \notin {"user", "assistant"}
        /\ IF "preamble" \in Defined(config) /\ config.preamble # <<>>
           THEN conversationHistory = <<[role |-> "system", content |-> config.preamble]>>
           ELSE conversationHistory = <<>>

\* C10 witness: clearHistory has re-seeded the history with a preamble that
\* updateConfig put in the configuration.
C10_Witness ==
    /\ last.op = "clearHistory"
    /\ conversationHistory = <<SystemMessage(Text_brief)>>

\* C6: the active template name of the configuration is absent or names a
\* template of the registry.
C6_ActiveTemplateRegistered ==
    "activeTemplate" \in Defined(config) => getTemplate(config.activeTemplate) # Undefined

\* C7: sendTemplatedMessage does not go ahead as an untemplated turn when the
\* active template name is set and names no template of the registry.
C7_MissingTemplateReported ==
    \A i \in 1..Len(pending) :
        ~ /\ pending[i].op = "sendTemplatedMessage"
          /\ TruthyName(config, "activeTemplate")
          /\ getTemplate(config.activeTemplate) = Undefined
          /\ pending[i].message = pending[i].input

(***************************************************************************)
(* Properties of getPresetInfo under SpecPreset.                            *)
(***************************************************************************)
\* C5: getPresetInfo reports precise exactly for temperature 0.0, balanced
\* exactly for 0.0 < temperature <= 0.3, creative exactly for temperature >= 1.0,
\* and otherwise custom with the temperature.
C5_PresetBands ==
    last.op = "getPresetInfo" =>
        LET t == config.temperature
            label == last.value.label
        IN  /\ label = "precise (focused on accuracy)" <=> t = 0
            /\ label = "balanced (general conversation)" <=> (0 < t /\ t <= 30)
            /\ label = "creative (imaginative responses)" <=> t >= 100
            /\ (30 < t /\ t < 100) => last.value = [label |-> "custom", temperature |-> t]

(***************************************************************************)
(* Properties of applyTemplate under SpecTemplate.                          *)
(***************************************************************************)
\* C8: on a template that holds the marker, applyTemplate returns the text
\* before the first marker, then the user input as it is, then the text after
\* that marker.
C8_VerbatimSubstitution ==
    (last.op = "applyTemplate" /\ Includes(last.template.template, Marker)) =>
        LET body == last.template.template
            at == IndexOf(body, Marker)
        IN  last.value = SubSeq(body, 1, at - 1) \o last.input
                         \o SubSeq(body, at + Len(Marker), Len(body))

(***************************************************************************)
(* Properties of getConversationHistory under SpecCopy.                     *)
(***************************************************************************)
\* C9: whatever the caller does to the array getConversationHistory returned,
\* the history of the session is what it was.
C9_CopyIsIndependent ==
    last.op = "editCopy" => conversationHistory = last.before

(***************************************************************************)
(* Properties of a session driven only by turns, under SpecTurns.           *)
(***************************************************************************)
\* The preamble of the configuration is set and not empty.
PreambleActive == TruthyText(config, "preamble")

NonSystemCount ==
    Cardinality({i \in 1..Len(conversationHistory) :
                    conversationHistory[i].role \in {"user", "assistant"}})

\* A step that appends a user message (sendMessage up to its await) or an
\* assistant message (the turn returns).
AppendsUser == Len(pending') = Len(pending) + 1

AppendsAssistant == \E i \in 1..Len(pending) : Returns(i)

\* The history is the system message when a preamble is active, then the user
\* and assistant messages.
HistoryShape ==
    /\ Len(conversationHistory) = NonSystemCount + (IF PreambleActive THEN 1 ELSE 0)
    /\ PreambleActive => conversationHistory[1] = SystemMessage(config.preamble)
    /\ \A i \in 1..Len(conversationHistory) :
          conversationHistory[i].role = "system" => i = 1

\* An append adds one message at the end and leaves what is there; no other
\* step changes the history.
AppendStep ==
    /\ AppendsUser =>
          conversationHistory' =
              Append(conversationHistory, UserMessage(pending'[Len(pending')].input))
    /\ AppendsAssistant =>
          conversationHistory' = Append(conversationHistory, AssistantMessage(last'.value))
    /\ (AppendsUser \/ AppendsAssistant) =>
          Len(conversationHistory') = Len(conversationHistory) + 1
    /\ ~(AppendsUser \/ AppendsAssistant) =>
          conversationHistory' = conversationHistory

\* C11: the history is as long as the number of user and assistant messages
\* appended, plus one when a preamble is active; the system message is first
\* and the other messages follow in the order they were appended.
C11_LengthCountsAppends == []HistoryShape /\ [][AppendStep]_vars

\* C11 witness: a session with a preamble has appended a user message and an
\* assistant message over the streaming path.
C11_Witness ==
    /\ PreambleActive
    /\ Len(conversationHistory) = 3
    /\ conversationHistory[2].role = "user"
    /\ conversationHistory[3].role = "assistant"
    /\ last.outcome = "returned"
    /\ last.api = "chatStream"

(***************************************************************************)
(* Algebraic properties of the session's operations, under Spec.            *)
(***************************************************************************)
PreambleTexts == PreambleInputs \cup {Text_brief, Preamble_balanced}

\* C12: in every state and for every text X, setPreamble(X) twice leaves the
\* history and the configuration that setPreamble(X) once leaves; and in a state
\* that setPreamble(X) has just produced, setPreamble(X) changes nothing.
C12_SetPreambleIdempotent ==
    /\ \A X \in PreambleTexts :
          LET config1 == setPreambleConfig(config, X)
              history1 == setPreambleHistory(conversationHistory, X)
          IN  /\ setPreambleConfig(config1, X) = config1
              /\ setPreambleHistory(history1, X) = history1
    /\ last.op = "setPreamble" =>
          /\ setPreambleConfig(config, last.input) = config
          /\ setPreambleHistory(conversationHistory, last.input) = conversationHistory

\* C12 witness: setPreamble has set the system message of a history that holds
\* a turn.
C12_Witness ==
    /\ last.op = "setPreamble"
    /\ last.input = Text_terse
    /\ Len(conversationHistory) = 3
    /\ conversationHistory[1] = SystemMessage(Text_terse)
    /\ conversationHistory[2].role = "user"
    /\ conversationHistory[3].role = "assistant"
    /\ config.preamble = Text_terse

\* A field is set in an object when reading it gives a value: the object has the
\* property and the property does not hold undefined.
IsSet(obj, k) == k \in Defined(obj)

\* result has the value of override for every field set in override, the value
\* of base for every other field set in base, and no other field set.
OverrideLaw(base, override, result) ==
    /\ \A k \in Defined(override) : IsSet(result, k) /\ result[k] = override[k]
    /\ \A k \in Defined(base) \ Defined(override) : IsSet(result, k) /\ result[k] = base[k]
    /\ Defined(result) \subseteq Defined(base) \cup Defined(override)

\* Partial configurations with falsy values, with several fields, with none.
Overrides ==
    ConfigUpdates \cup ConstructorConfigs
    \cup { [temperature |-> 0], [preamble |-> <<>>],
           [temperature |-> 80, maxTokens |-> 200, model |-> "command-r"] }

\* What getConfig returns on a session made with no configuration after its
\* clearTemplate: the defaults, and activeTemplate holding undefined.
ClearedConfig == getConfig(clearTemplate(constructor(<<>>).config))

\* Partial configurations with a property that holds undefined: written by the
\* caller ({ temperature: undefined }, { enableStreaming: undefined }), or
\* got from another session.
UndefinedOverrides ==
    { Object(<<>>, {"temperature"}),
      Object(<<>>, {"enableStreaming"}),
      ClearedConfig }

MergeUpdates ==
    { [enableStreaming |-> TRUE], [temperature |-> 0] } \cup UndefinedOverrides

MergeConfigs ==
    { <<>>, [enableStreaming |-> TRUE], Object(<<>>, {"temperature"}) }

InitMerge == \E c \in MergeConfigs : Constructed(constructor(c), "constructor")

\* A session whose caller merges configurations, sets and clears the template,
\* and takes turns on either path.
NextMerge ==
    \/ \E u \in MergeUpdates : Idle /\ UpdateConfig(u)
    \/ Idle /\ SetTemplate("code")
    \/ Idle /\ ClearTemplate
    \/ Idle /\ SendMessage(Text_Hi)
    \/ \E i \in 1..Len(pending) : ChatResolves(i, [message |-> [content |-> <<[text |-> Text_Hello]>>]])
    \/ \E i \in 1..Len(pending) : StreamEnds(i)

SpecMerge == InitMerge /\ [][NextMerge]_vars

\* The override law for the overrides whose properties all hold values: over the
\* defaults in the constructor, over the current configuration in updateConfig.
OverrideLawForValues ==
    /\ \A c \in Overrides \cup {CHATBOT_PRESETS[p] : p \in ChatbotPreset} :
          OverrideLaw(DefaultConfig, c, constructor(c).config)
    /\ \A u \in Overrides : OverrideLaw(config, u, updateConfig(config, u))

\* C13: the configuration a constructor call leaves is the override law's result
\* of the caller's configuration over the defaults, for every caller's
\* configuration and every preset; in every state, the configuration an
\* updateConfig call would leave is the law's result of its argument over the
\* current configuration: every field set in the argument has the argument's
\* value, every field unset in it keeps the value it had.
C13_FieldwiseOverride ==
    /\ \A c \in Overrides \cup MergeConfigs \cup {CHATBOT_PRESETS[p] : p \in ChatbotPreset} :
          OverrideLaw(DefaultConfig, c, constructor(c).config)
    /\ \A u \in Overrides \cup MergeUpdates :
          OverrideLaw(config, u, updateConfig(config, u))

\* A session made with streaming on has been handed { enableStreaming:
\* undefined } and has sent its next message to chat.
C13_StreamingLost ==
    /\ last.op = "sendMessage"
    /\ last.outcome = "returned"
    /\ last.api = "chat"
    /\ "enableStreaming" \in UndefinedProperties(config)

\* A session with the template code has been handed the configuration of a
\* session whose template was cleared, and has no active template.
C13_TemplateLost ==
    /\ last.op = "updateConfig"
    /\ last.input = ClearedConfig
    /\ ~IsSet(config, "activeTemplate")

(***************************************************************************)
(* Properties of the two dispatch paths, under Spec.                        *)
(***************************************************************************)
\* A chunk that carries a text fragment, and the fragments of a sequence of
\* chunks in the order of the sequence.
CarriesText(chunk) ==
    /\ chunk.type = "content-delta"
    /\ "delta" \in DOMAIN chunk
    /\ "message" \in DOMAIN chunk.delta
    /\ "content" \in DOMAIN chunk.delta.message
    /\ "text" \in DOMAIN chunk.delta.message.content

Fragments(chunks) ==
    LET carrying == SelectSeq(chunks, CarriesText)
    IN  [k \in 1..Len(carrying) |-> carrying[k].delta.message.content.text]

RECURSIVE Concatenation(_)
Concatenation(texts) ==
    IF texts = <<>> THEN <<>> ELSE Head(texts) \o Concatenation(Tail(texts))

\* C14: when a streaming turn returns, the value returned and the content of the
\* assistant message appended are the concatenation of the text fragments the
\* stream delivered, in the order it delivered them.
C14_StreamConcatenates ==
    [][ \A i \in 1..Len(pending) :
            (Returns(i) /\ pending[i].api = "chatStream") =>
                LET text == Concatenation(Fragments(pending[i].delivered))
                IN  /\ last'.value = text
                    /\ conversationHistory' =
                           Append(conversationHistory, AssistantMessage(text))
      ]_vars

\* C14 witness: a stream delivered the fragments Hel and lo and ended; the turn
\* returned Hello and appended it.
C14_Witness ==
    /\ last.op = "sendMessage"
    /\ last.outcome = "returned"
    /\ last.api = "chatStream"
    /\ last.got = 2
    /\ last.value = Frag_Hel \o Frag_lo
    /\ conversationHistory[Len(conversationHistory)] = AssistantMessage(Frag_Hel \o Frag_lo)

(***************************************************************************)
(* Properties of the ends of a turn, under SpecTurns.                       *)
(***************************************************************************)
\* The response has no message, or its message no content, or the content list
\* is empty, or its first item has no text or an empty one.
NoUsableText(response) ==
    \/ "message" \notin DOMAIN response
    \/ "content" \notin DOMAIN response.message
    \/ response.message.content = <<>>
    \/ "text" \notin DOMAIN response.message.content[1]
    \/ response.message.content[1].text = <<>>

\* The latest completion is that of a turn over client.chat.
ChatTurnEnded == last.op = "sendMessage" /\ last.outcome # "dispatched" /\ last.api = "chat"

\* C15: a turn over client.chat whose response has no usable text returns, and
\* what it returns and appends as the assistant message is the placeholder
\* "No response received"; a response with a text is returned as it is.
C15_PlaceholderWhenNoText ==
    (ChatTurnEnded /\ "got" \in DOMAIN last) =>
        /\ last.outcome = "returned"
        /\ conversationHistory[Len(conversationHistory)] = AssistantMessage(last.value)
        /\ IF NoUsableText(last.got)
           THEN last.value = NO_RESPONSE
           ELSE last.value = last.got.message.content[1].text

\* C15 witness: client.chat resolved with a message whose content list is empty,
\* and the placeholder is the assistant message of the turn.
C15_Witness ==
    /\ ChatTurnEnded
    /\ last.outcome = "returned"
    /\ last.got = [message |-> [content |-> <<>>]]
    /\ last.value = NO_RESPONSE
    /\ conversationHistory[Len(conversationHistory)].content = NO_RESPONSE
    /\ conversationHistory[Len(conversationHistory) - 1] = UserMessage(last.input)

\* The latest completion is that of a turn whose try block threw.
DispatchFailed == "cause" \in DOMAIN last

\* C16: whatever the try block of sendMessage threw, and over either path, the
\* call throws the error with the one generic message and returns no value; no
\* assistant message is appended for the turn.
C16_OneGenericFailure ==
    DispatchFailed =>
        /\ last.outcome = "threw"
        /\ last.error.message = GenericError.message
        /\ "value" \notin DOMAIN last
        /\ conversationHistory[Len(conversationHistory)].role = "user"

\* C16 witness: the stream of a turn threw while it was iterated, after a turn
\* that returned.
C16_Witness ==
    /\ DispatchFailed
    /\ last.cause = "stream error"
    /\ last.api = "chatStream"
    /\ Len(conversationHistory) = 3
    /\ conversationHistory[2].role = "assistant"

\* C17: the error sendMessage throws after a dispatch failure holds the error
\* that the try block threw.
C17_FailureCarriesCause ==
    DispatchFailed =>
        /\ "cause" \in DOMAIN last.error
        /\ last.error.cause = last.cause

(***************************************************************************)
(* Properties of setTemplate under SpecTemplateNames.                       *)
(***************************************************************************)
\* The registry holds a template whose name is exactly name.
Registered(name) == \E k \in 1..Len(promptTemplates) : promptTemplates[k].name = name

\* Property j is the same in two objects: absent in both, holding undefined in
\* both, or holding the same value in both.
SameField(a, b, j) ==
    /\ j \in Defined(a) <=> j \in Defined(b)
    /\ j \in Defined(a) => a[j] = b[j]
    /\ j \in UndefinedProperties(a) <=> j \in UndefinedProperties(b)

\* Every property but k is the same in the two objects.
OtherFieldsKept(a, b, k) ==
    \A j \in (Defined(a) \cup Defined(b) \cup UndefinedProperties(a)
              \cup UndefinedProperties(b)) \ {k} : SameField(a, b, j)

\* C18: a call setTemplate(name) returns true and makes name the active
\* template when the registry holds a template of exactly that name, and
\* otherwise returns false and leaves the configuration as it was; in both cases
\* the other fields of the configuration and the history are what they were.
C18_SetTemplateExactName ==
    [][ last'.op = "setTemplate" =>
            /\ last'.value = Registered(last'.input)
            /\ conversationHistory' = conversationHistory
            /\ OtherFieldsKept(config, config', "activeTemplate")
            /\ IF Registered(last'.input)
               THEN /\ "activeTemplate" \in Defined(config')
                    /\ config'.activeTemplate = last'.input
               ELSE config' = config
      ]_vars

\* C18 witness: setTemplate("Code") has returned false in a session whose
\* active template is code and whose history holds a templated turn.
C18_Witness ==
    /\ last.op = "setTemplate"
    /\ last.input = "Code"
    /\ last.value = FALSE
    /\ "activeTemplate" \in Defined(config)
    /\ config.activeTemplate = "code"
    /\ Len(conversationHistory) >= 2
    /\ conversationHistory[Len(conversationHistory)].role = "assistant"

(***************************************************************************)
(* Properties of fromPreset under SpecPreset.                               *)
(***************************************************************************)
\* The temperature and the preamble the catalog documents for a preset.
PresetTemperature(p) ==
    CASE p = "precise" -> 0 [] p = "balanced" -> 30 [] p = "creative" -> 100

PresetPreamble(p) ==
    CASE p = "precise" -> Preamble_precise
      [] p = "balanced" -> Preamble_balanced
      [] p = "creative" -> Preamble_creative

\* bot is a session of preset p: each field the preset sets has the preset's
\* value, each other field the default, and the history is the preset's
\* preamble as a system message.
IsPresetSession(bot, p) ==
    /\ DOMAIN bot.config = DOMAIN DefaultConfig \cup DOMAIN CHATBOT_PRESETS[p]
    /\ \A k \in DOMAIN CHATBOT_PRESETS[p] : bot.config[k] = CHATBOT_PRESETS[p][k]
    /\ \A k \in DOMAIN DefaultConfig \ DOMAIN CHATBOT_PRESETS[p] :
          bot.config[k] = DefaultConfig[k]
    /\ bot.config.temperature = PresetTemperature(p)
    /\ bot.config.preamble = PresetPreamble(p)
    /\ bot.config.model = "command-r-plus"
    /\ bot.config.maxTokens = 500
    /\ bot.config.enableStreaming = FALSE
    /\ bot.conversationHistory = <<[role |-> "system", content |-> PresetPreamble(p)]>>

\* C19: fromPreset(p) gives a session of preset p, for each of the three
\* presets; a session that fromPreset has just returned is one of these.
C19_PresetSession ==
    /\ \A p \in ChatbotPreset : IsPresetSession(fromPreset(p), p)
    /\ last.op = "fromPreset" =>
          \E p \in ChatbotPreset :
              IsPresetSession([config |-> config,
                               conversationHistory |-> conversationHistory], p)

\* C19 witness: fromPreset has returned the session of the precise preset.
C19_Witness ==
    /\ last.op = "fromPreset"
    /\ config.temperature = 0
    /\ config.maxTokens = 500
    /\ conversationHistory = <<SystemMessage(Preamble_precise)>>

(***************************************************************************)
(* Properties of getPresetInfo and the requests, under SpecInfo.            *)
(***************************************************************************)
\* The model, temperature and max length of every request that is out are those
\* of the configuration.
RequestCarriesConfig ==
    \A i \in 1..Len(pending) :
        /\ pending[i].request.temperature = config.temperature
        /\ pending[i].request.model = config.model
        /\ pending[i].request.maxTokens = config.maxTokens

\* A call of getPresetInfo leaves the configuration, the history and the turns;
\* the request of a sendMessage that follows it carries the values of the
\* configuration getPresetInfo read.
PresetInfoReads ==
    /\ last'.op = "getPresetInfo" =>
          /\ config' = config
          /\ conversationHistory' = conversationHistory
          /\ pending' = pending
    /\ (last.op = "getPresetInfo" /\ Len(pending') = Len(pending) + 1) =>
          /\ pending'[Len(pending')].request.temperature = config.temperature
          /\ pending'[Len(pending')].request.model = config.model
          /\ pending'[Len(pending')].request.maxTokens = config.maxTokens

\* C20: getPresetInfo changes neither the configuration nor the history, and a
\* request carries the temperature, the model and the max length of the
\* configuration: a temperature of 0.0 is sent as 0.0.
C20_PresetInfoPureRead == []RequestCarriesConfig /\ [][PresetInfoReads]_vars

\* C20 witness: getPresetInfo has reported balanced in a session whose
\* temperature is 0.0, while the request of the session's second turn is out
\* with temperature 0.0.
C20_Witness ==
    /\ last.op = "getPresetInfo"
    /\ last.value = [label |-> "balanced (general conversation)"]
    /\ config.temperature = 0
    /\ Len(pending) = 1
    /\ Len(pending[1].h0) >= 2
    /\ pending[1].request.temperature = 0

(***************************************************************************)
(* Properties of a session whose caller does not await, under SpecAsync.    *)
(***************************************************************************)
\* C21: at most one sendMessage call of the session is waiting on the service.
C21_OneTurnOutstanding == Len(pending) <= 1

\* A step in which the caller invokes an operation of the session.
Invocation == Len(pending') = Len(pending) + 1 \/ last'.op = "clearHistory"

\* The caller has just stopped waiting for the only turn of the session, whose
\* user message ends the history.
JustAbandoned ==
    /\ last.outcome = "abandoned"
    /\ Len(pending) = 1
    /\ conversationHistory # <<>>
    /\ conversationHistory[Len(conversationHistory)] = UserMessage(last.input)

\* C22: once the caller has stopped waiting for a turn, the history keeps the
\* turn's user message as its last message, with no assistant message for it,
\* as long as the caller invokes no operation.
C22_AbandonedTurnStaysOpen ==
    [][ (JustAbandoned /\ ~Invocation) =>
            conversationHistory' = conversationHistory ]_vars

(***************************************************************************)
(* Properties of two sessions and the catalog, under SpecSessions.          *)
(***************************************************************************)
\* The step changes the configuration or the history of session s.
Changes(s) ==
    \/ ConfigOf(config', s) # ConfigOf(config, s)
    \/ conversationHistory'[s] # conversationHistory[s]

CatalogIntact == \A p \in ChatbotPreset : config[p] = CHATBOT_PRESETS[p]

\* A step of a session changes nothing of another session.
OneSessionStep ==
    \A s \in Sessions :
        \/ \A t \in Sessions \ {s} : ~Changes(t)
        \/ ~StepOf(s)

\* C23: every entry of the catalog is what it was at the start, and a step of
\* one session, an operation called on it or an answer, a chunk or a failure
\* arriving for one of its calls, leaves the configuration and the history of
\* the other session unchanged.
C23_SessionsIndependent == []CatalogIntact /\ [][OneSessionStep]_vars

\* C23 witness: of two sessions of the balanced preset, a has completed a
\* turn, and b, switched to streaming, has a call of its own waiting whose
\* stream has delivered Hel; a is as its turn left it.
C23_Witness ==
    /\ Len(pending) = 1
    /\ pending[1].session = "b"
    /\ pending[1].api = "chatStream"
    /\ pending[1].fullResponse = Frag_Hel
    /\ conversationHistory["b"] = <<SystemMessage(Preamble_balanced), UserMessage(Text_Hi)>>
    /\ ConfigOf(config, "a") = CHATBOT_PRESETS["balanced"]
    /\ conversationHistory["a"] =
           <<SystemMessage(Preamble_balanced), UserMessage(Text_Hi),
             AssistantMessage(Frag_Hel \o Frag_lo)>>

(***************************************************************************)
(* The interactive loop of main: one session, created from the preset and   *)
(* the template chosen at start-up, and a while (true) loop that reads a    *)
(* line, runs it as a command or as a turn, awaits the turn and prints its  *)
(* result or its failure.  last.outcome = "ended" once the loop has been    *)
(* left.                                                                     *)
(***************************************************************************)
Line_quit ==
    <<"q","u","i","t">>

Line_EXIT ==
    <<"E","X","I","T">>

Line_clear ==
    <<"c","l","e","a","r">>

Line_history ==
    <<"h","i","s","t","o","r","y">>

Line_streaming ==
    <<"s","t","r","e","a","m","i","n","g">>

Line_templates ==
    <<"t","e","m","p","l","a","t","e","s">>

Line_template_ ==
    <<"t","e","m","p","l","a","t","e"," ">>

Line_Template_code ==
    <<"T","e","m","p","l","a","t","e"," ","c","o","d","e"," ">>

Line_template_nope ==
    <<"t","e","m","p","l","a","t","e"," ","n","o","p","e">>

Line_no_template ==
    <<"n","o","-","t","e","m","p","l","a","t","e">>

Line_info ==
    <<"i","n","f","o">>

Line_blank ==
    <<" "," ">>

Line_exit ==
    <<"e","x","i","t">>

Line_template_code_ff ==
    <<"t","e","m","p","l","a","t","e"," ","c","o","d","e","\f">>

Line_formfeed ==
    <<"\f">>

Line_nbsp ==
    <<" ">>

\* The cased characters up to U+00FF, the characters a text of the model can
\* hold: A to Z, and the accented capitals U+00C0 to U+00DE without the
\* multiplication sign U+00D7.
UpperCase ==
    <<"A","B","C","D","E","F","G","H","I","J","K","L","M",
      "N","O","P","Q","R","S","T","U","V","W","X","Y","Z",
      "À","Á","Â","Ã","Ä","Å","Æ","Ç","È","É","Ê","Ë","Ì","Í","Î",
      "Ï","Ð","Ñ","Ò","Ó","Ô","Õ","Ö","Ø","Ù","Ú","Û","Ü","Ý","Þ">>

LowerCase ==
    <<"a","b","c","d","e","f","g","h","i","j","k","l","m",
      "n","o","p","q","r","s","t","u","v","w","x","y","z",
      "à","á","â","ã","ä","å","æ","ç","è","é","ê","ë","ì","í","î",
      "ï","ð","ñ","ò","ó","ô","õ","ö","ø","ù","ú","û","ü","ý","þ">>

LowerOf ==
    [c \in {UpperCase[k] : k \in 1..Len(UpperCase)} |->
        LowerCase[CHOOSE k \in 1..Len(UpperCase) : UpperCase[k] = c]]

toLowerCase(text) ==
    [i \in 1..Len(text) |->
        IF text[i] \in DOMAIN LowerOf THEN LowerOf[text[i]] ELSE text[i]]

\* The WhiteSpace and LineTerminator characters up to U+00FF that trim strips:
\* space, tab, line feed, carriage return, form feed, vertical tab (U+000B) and
\* the no-break space (U+00A0).
WhiteSpace == {" ", "\t", "\n", "\r", "\f", "", " "}

trim(text) ==
    LET kept == {i \in 1..Len(text) : text[i] \notin WhiteSpace}
    IN  IF kept = {} THEN <<>>
        ELSE SubSeq(text, CHOOSE i \in kept : \A j \in kept : i <= j,
                          CHOOSE i \in kept : \A j \in kept : j <= i)

startsWith(text, prefix) ==
    Len(text) >= Len(prefix) /\ SubSeq(text, 1, Len(prefix)) = prefix

substring(text, start) == SubSeq(text, start + 1, Len(text))

\* The name a text spells: the string of its characters.  The loop hands the
\* rest of the line to setTemplate, which takes names as strings.
RECURSIVE NameSpelled(_)
NameSpelled(text) ==
    IF text = <<>> THEN "" ELSE Head(text) \o NameSpelled(Tail(text))

\* The lines typed at the prompt: every command, in both cases, a blank line,
\* and a line of conversation.
Lines ==
    { Line_quit, Line_EXIT, Line_clear, Line_history, Line_streaming, Line_templates,
      Line_Template_code, Line_template_nope, Line_template_,
      Line_template_code_ff, Line_no_template, Line_info,
      Line_blank, Line_formfeed, Line_nbsp, <<>>, Text_Hi }

\* A loop without the try block around the turn: the rejection leaves main.
loopEnded_OnThrow(call) == call.outcome \in {"ended", "threw"}

\* The loop is left by the break of the quit branch and by nothing else.
loopEnded(call) == call.outcome = "ended"

\* What the catch block of the loop writes to the error stream: the label
\* (written here without its leading cross-mark sign) and the error's message.
errorLine(error) == <<"Error:", error.message>>

Break(userInput) ==
    /\ last' = [op |-> "quit", outcome |-> "ended", input |-> userInput]
    /\ UNCHANGED <<config, conversationHistory, pending>>

\* A command that only prints: history, templates, and a blank line.
Continue(command, userInput) ==
    /\ last' = [op |-> command, outcome |-> "returned", input |-> userInput]
    /\ UNCHANGED <<config, conversationHistory, pending>>

\* One pass of the loop body up to its continue, its break or its await.
ReadLine(userInput) ==
    LET lower == toLowerCase(userInput)
    IN  /\ Idle
        /\ ~loopEnded(last)
        /\ IF lower = Line_quit \/ lower = Line_exit THEN Break(userInput)
           ELSE IF lower = Line_clear THEN ClearHistory
           ELSE IF lower = Line_history THEN Continue("history", userInput)
           ELSE IF lower = Line_streaming
                THEN UpdateConfig([enableStreaming |-> ~TruthyFlag(getConfig(config), "enableStreaming")])
           ELSE IF lower = Line_templates THEN Continue("templates", userInput)
           ELSE IF startsWith(lower, Line_template_)
                THEN SetTemplate(NameSpelled(trim(substring(userInput, Len(Line_template_)))))
           ELSE IF lower = Line_no_template THEN ClearTemplate
           ELSE IF lower = Line_info THEN GetPresetInfo
           ELSE IF trim(userInput) = <<>> THEN Continue("blank", userInput)
           ELSE IF TruthyName(config, "activeTemplate")
                THEN SendTemplatedMessage(userInput)
                ELSE SendMessage(userInput)

\* The answers given to selectTemplate: no template, and the second of the list.
TemplateChoices == {0, 2}

\* main before the loop: the preset chosen, then the template chosen, if any.
InitLoop ==
    \E p \in ChatbotPreset, choice \in TemplateChoices :
        LET chatbot == fromPreset(p)
        IN  Constructed(
                [chatbot EXCEPT !.config =
                    IF choice = 0 THEN @
                    ELSE setTemplate(@, promptTemplates[choice].name).config],
                "fromPreset")

NextLoop ==
    \/ \E line \in Lines : ReadLine(line)
    \/ \E i \in 1..Len(pending), r \in ChatResponses : ChatResolves(i, r)
    \/ \E i \in 1..Len(pending) : \E c \in StreamChunks(Len(SelectSeq(pending[i].stdout, NonEmpty))) : StreamChunk(i, c)
    \/ \E i \in 1..Len(pending) : StreamEnds(i)
    \/ \E i \in 1..Len(pending), e \in ServiceErrors : DispatchFails(i, e)

SpecLoop == InitLoop /\ [][NextLoop]_vars

(***************************************************************************)
(* C24  In the interactive loop a failed turn never ends the session: after *)
(* a sendMessage or sendTemplatedMessage that threw, the loop has the       *)
(* failure's message to print and is back at its prompt, where every        *)
(* command line can be read; and the loop is left only by a line that is    *)
(* quit or exit in some letter case.                                         *)
(***************************************************************************)
TurnFailed == last.outcome = "threw"

FailedTurnReadsOn ==
    TurnFailed =>
        /\ last.op \in {"sendMessage", "sendTemplatedMessage"}
        /\ errorLine(last.error) = <<"Error:", "Failed to get response from Cohere API">>
        /\ pending = <<>>
        /\ \A line \in Lines \ {Text_Hi} : ENABLED ReadLine(line)

EndsOnlyOnQuit ==
    (last'.outcome = "ended" /\ last.outcome # "ended") =>
        /\ toLowerCase(last'.input) \in {Line_quit, Line_exit}
        /\ last.outcome # "dispatched"

C24_FailedTurnKeepsLoop == []FailedTurnReadsOn /\ [][EndsOnlyOnQuit]_vars

\* A templated turn has failed after an earlier turn of the same loop.
C24_Witness ==
    /\ TurnFailed
    /\ last.op = "sendTemplatedMessage"
    /\ Len(conversationHistory) >= 3

(***************************************************************************)
(* Templated turns: every registry template, an unregistered name and no    *)
(* template, with inputs that are plain, that hold the marker and that hold *)
(* a replacement pattern.                                                    *)
(***************************************************************************)
Text_pattern ==
    <<"$","&">>

TemplatedTexts == {Text_sort, Marker, Text_pattern}

RegistryNames == {promptTemplates[k].name : k \in 1..Len(promptTemplates)}

NextTemplated ==
    \/ \E n \in RegistryNames : Idle /\ SetTemplate(n)
    \/ Idle /\ ClearTemplate
    \/ \E u \in TemplatedTexts : Idle /\ SendTemplatedMessage(u)
    \/ \E i \in 1..Len(pending) : ChatResolves(i, [message |-> [content |-> <<[text |-> Text_Hello]>>]])
    \/ \E i \in 1..Len(pending), e \in ServiceErrors : DispatchFails(i, e)

SpecTemplated == Init /\ [][NextTemplated]_vars

(***************************************************************************)
(* C25  A call sendTemplatedMessage(u) appends exactly one message to the   *)
(* history, a user message, and that message is also the last message of    *)
(* the request handed to the service.  Its text is applyTemplate(t, u) when *)
(* the active template name is set and the registry holds template t under  *)
(* that name, and u itself when no template is active.                       *)
(***************************************************************************)
TemplatedCall ==
    /\ Len(pending') = Len(pending) + 1
    /\ last'.op = "sendTemplatedMessage"

RegistryEntry(name) ==
    promptTemplates[CHOOSE k \in 1..Len(promptTemplates) : promptTemplates[k].name = name]

CommitsAndSends(text) ==
    LET sent == pending'[Len(pending')].request.messages
    IN  /\ conversationHistory' = Append(conversationHistory, UserMessage(text))
        /\ sent # <<>>
        /\ sent[Len(sent)] = [role |-> "user", content |-> text]

C25_TemplatedTurnText ==
    [][ TemplatedCall =>
          /\ ("activeTemplate" \in Defined(config) /\ Registered(config.activeTemplate))
                => CommitsAndSends(applyTemplate(RegistryEntry(config.activeTemplate),
                                                 last'.input))
          /\ ~TruthyName(config, "activeTemplate") => CommitsAndSends(last'.input) ]_vars

\* A request built through the code template is waiting at the service: its
\* last message is the rendered text, which is not the caller's input.
C25_Witness ==
    /\ Len(pending) = 1
    /\ pending[1].op = "sendTemplatedMessage"
    /\ "activeTemplate" \in Defined(config)
    /\ config.activeTemplate = "code"
    /\ pending[1].input = Text_sort
    /\ pending[1].message # Text_sort
    /\ conversationHistory[Len(conversationHistory)].content = pending[1].message

(***************************************************************************)
(* C26  For each registry template (general, code, creative, qa) and each   *)
(* user input that does not hold the marker, the text applyTemplate returns *)
(* holds the user input as a substring and holds no {userInput} marker.      *)
(***************************************************************************)
C26_RenderedHoldsInput ==
    ( /\ last.op = "applyTemplate"
      /\ last.template \in RegistryTemplates
      /\ ~Includes(last.input, Marker) ) =>
        /\ Includes(last.value, last.input)
        /\ ~Includes(last.value, Marker)

(***************************************************************************)
(* C27  getPresetInfo on a session that fromPreset(p) has just created      *)
(* returns the label that names p: precise for precise, balanced for        *)
(* balanced, creative for creative.                                          *)
(***************************************************************************)
PresetLabel ==
    [precise |-> "precise (focused on accuracy)",
     balanced |-> "balanced (general conversation)",
     creative |-> "creative (imaginative responses)"]

C27_PresetNamesItself ==
    \A p \in ChatbotPreset :
        ( /\ last.op = "getPresetInfo"
          /\ config = fromPreset(p).config
          /\ conversationHistory = fromPreset(p).conversationHistory ) =>
            last.value = [label |-> PresetLabel[p]]

(***************************************************************************)
(* C28  A call setPreamble(text) keeps the user and assistant messages of   *)
(* the history, each as it was and in the order they had, leaves exactly    *)
(* one system message, with content text, as the first element, makes text  *)
(* the preamble of the configuration and changes no other field of it.       *)
(***************************************************************************)
SetPreambleCall == last'.op = "setPreamble" /\ UNCHANGED pending

C28_SetPreambleFrame ==
    [][ SetPreambleCall =>
          LET text == last'.input
              after == conversationHistory'
          IN  /\ SelectSeq(after, NotSystem) = SelectSeq(conversationHistory, NotSystem)
              /\ after # <<>>
              /\ after[1] = SystemMessage(text)
              /\ \A i \in 2..Len(after) : after[i].role # "system"
              /\ "preamble" \in Defined(config')
              /\ config'.preamble = text
              /\ OtherFieldsKept(config, config', "preamble") ]_vars

\* setPreamble with the empty text has run on a history with a failed turn and a
\* completed turn, in a session whose configuration holds an active template.
C28_Witness ==
    /\ last.op = "setPreamble"
    /\ last.input = <<>>
    /\ Len(conversationHistory) = 4
    /\ conversationHistory[1] = SystemMessage(<<>>)
    /\ conversationHistory[2].role = "user"
    /\ conversationHistory[3].role = "user"
    /\ conversationHistory[4].role = "assistant"
    /\ "activeTemplate" \in Defined(config)
    /\ config.preamble = <<>>

(***************************************************************************)
(* Turns of a session whose streaming flag is switched at any time, also    *)
(* while a call is waiting on the service.                                   *)
(***************************************************************************)
StreamingFlags == {[enableStreaming |-> TRUE], [enableStreaming |-> FALSE]}

NextCalls ==
    \/ \E m \in UserInputs : Idle /\ SendMessage(m)
    \/ \E u \in StreamingFlags : UpdateConfig(u)
    \/ \E i \in 1..Len(pending), r \in ChatResponses : ChatResolves(i, r)
    \/ \E i \in 1..Len(pending) : \E c \in StreamChunks(Len(SelectSeq(pending[i].stdout, NonEmpty))) : StreamChunk(i, c)
    \/ \E i \in 1..Len(pending) : StreamEnds(i)
    \/ \E i \in 1..Len(pending), e \in FailureKinds :
          Raises(pending[i], e) /\ DispatchFails(i, e)

SpecCalls == InitTurns /\ [][NextCalls]_vars

(***************************************************************************)
(* C29  Each sendMessage call makes exactly one call to the service: chat   *)
(* when the streaming flag is off at the start of the call and chatStream   *)
(* when it is on.  The call makes no further service call while it waits,   *)
(* and none when it fails: the turn that throws has made that one call, on  *)
(* that one path, and is over.                                               *)
(***************************************************************************)
PathOf(cfg) == IF TruthyFlag(cfg, "enableStreaming") THEN "chatStream" ELSE "chat"

CallStarts == Len(pending') = Len(pending) + 1

CallWaits == Len(pending') = Len(pending)

OneServiceCall ==
    /\ CallStarts => pending'[Len(pending')].calls = <<PathOf(config)>>
    /\ CallWaits => \A i \in 1..Len(pending) : pending'[i].calls = pending[i].calls
    /\ \A i \in 1..Len(pending) :
          (Throws(i) \/ Returns(i)) => last'.calls = pending[i].calls

C29_OneServiceCallPerTurn == [][OneServiceCall]_vars

\* A call that started on the chat path has failed after the flag was switched
\* to streaming: it made one call, to chat.
C29_Witness ==
    /\ last.outcome = "threw"
    /\ last.op = "sendMessage"
    /\ last.calls = <<"chat">>
    /\ TruthyFlag(config, "enableStreaming")
    /\ pending = <<>>

(***************************************************************************)
(* C30  While a streaming turn is waiting on its stream, the history is the *)
(* history the call started from plus the turn's user message, and the      *)
(* fragments written to the display are the fragments of the chunks         *)
(* consumed so far, in their order.  An assistant message is appended only  *)
(* by the step in which a turn returns: for a streaming turn its text is    *)
(* the concatenation of what has been displayed, and a stream that throws   *)
(* appends nothing.                                                          *)
(***************************************************************************)
StreamInProgress ==
    \A i \in 1..Len(pending) :
        pending[i].api = "chatStream" =>
            /\ conversationHistory = Append(pending[i].h0, UserMessage(pending[i].message))
            /\ SelectSeq(pending[i].stdout, NonEmpty) = Fragments(pending[i].delivered)

CommitsAssistant ==
    /\ Len(conversationHistory') = Len(conversationHistory) + 1
    /\ SubSeq(conversationHistory', 1, Len(conversationHistory)) = conversationHistory
    /\ conversationHistory'[Len(conversationHistory')].role = "assistant"

StreamCommit ==
    /\ CommitsAssistant => \E i \in 1..Len(pending) : Returns(i)
    /\ \A i \in 1..Len(pending) :
          pending[i].api = "chatStream" =>
              /\ Returns(i) =>
                    /\ SelectSeq(pending[i].stdout, NonEmpty) = Fragments(pending[i].delivered)
                    /\ conversationHistory' =
                           Append(conversationHistory,
                                  AssistantMessage(Concatenation(pending[i].stdout)))
              /\ Throws(i) => conversationHistory' = conversationHistory

C30_StreamCommitsAtEnd == []StreamInProgress /\ [][StreamCommit]_vars

\* A stream has delivered the fragments Hel and lo, both are on the display, and
\* the history still ends with the turn's user message.
C30_Witness ==
    /\ Len(pending) = 1
    /\ pending[1].api = "chatStream"
    /\ pending[1].stdout = <<Frag_Hel, Frag_lo>>
    /\ conversationHistory[Len(conversationHistory)] = UserMessage(pending[1].message)

(***************************************************************************)
(* C31  When a stream throws after it has delivered and displayed at least  *)
(* one fragment, the history stays as it was, ending with the turn's user   *)
(* message: no assistant message, partial or placeholder, is appended; and  *)
(* the call throws the generic error and returns no text.                    *)
(***************************************************************************)
PartialStream(turn) ==
    /\ turn.api = "chatStream"
    /\ Fragments(turn.delivered) # <<>>
    /\ SelectSeq(turn.stdout, NonEmpty) = Fragments(turn.delivered)

C31_PartialTextDropped ==
    [][ \A i \in 1..Len(pending) :
            (Throws(i) /\ PartialStream(pending[i])) =>
                /\ conversationHistory' = conversationHistory
                /\ conversationHistory'[Len(conversationHistory')] =
                       UserMessage(pending[i].message)
                /\ \A k \in 1..Len(conversationHistory') :
                       conversationHistory'[k].role = "assistant" =>
                           k <= Len(pending[i].h0)
                /\ last'.error = GenericError
                /\ "value" \notin DOMAIN last'
      ]_vars

\* A stream threw after Hel and lo were displayed: the history ends with the
\* user message of the turn.
C31_Witness ==
    /\ last.outcome = "threw"
    /\ last.op = "sendMessage"
    /\ last.cause = "stream error"
    /\ last.stdout = <<Frag_Hel, Frag_lo>>
    /\ conversationHistory[Len(conversationHistory)] = UserMessage(last.input)

(***************************************************************************)
(* applyTemplate called once, on a template and an input chosen beforehand: *)
(* the templates without a marker, and one with a marker.                    *)
(***************************************************************************)
InitRender ==
    \E t \in MarkerlessTemplates \cup CallerTemplates, u \in RenderInputs :
        /\ config = constructor(<<>>).config
        /\ conversationHistory = constructor(<<>>).conversationHistory
        /\ pending = <<>>
        /\ last = [op |-> "applyTemplate", outcome |-> "called",
                   template |-> t, input |-> u]

NextRender == last.outcome = "called" /\ ApplyTemplate(last.template, last.input)

SpecRender == InitRender /\ [][NextRender]_vars

(***************************************************************************)
(* C32  On a template whose body holds no {userInput} marker, applyTemplate *)
(* returns the body as it is, for every user input: the call returns, and   *)
(* its value is the body.                                                    *)
(***************************************************************************)
C32_MarkerlessBodyUnchanged ==
    ( /\ last.op = "applyTemplate"
      /\ last.outcome # "called"
      /\ ~Includes(last.template.template, Marker) ) =>
        /\ last.outcome = "returned"
        /\ last.value = last.template.template

\* applyTemplate has run on the template without a marker with an input that is
\* a replacement pattern.
C32_Witness ==
    /\ last.op = "applyTemplate"
    /\ last.outcome = "returned"
    /\ last.template.template = Template_open
    /\ last.input = <<"$", "&">>
    /\ last.value = Template_open

(***************************************************************************)
(* C33  In every state reached through the public operations, updateConfig  *)
(* with a preamble among them: a system message in the history has the      *)
(* preamble of the configuration as its content, and when the configuration *)
(* has a non-empty preamble the history holds a system message.              *)
(***************************************************************************)
C33_SystemMessageIsPreamble ==
    /\ \A k \in 1..Len(conversationHistory) :
          conversationHistory[k].role = "system" =>
              /\ "preamble" \in Defined(config)
              /\ conversationHistory[k].content = config.preamble
    /\ TruthyText(config, "preamble") =>
          \E k \in 1..Len(conversationHistory) : conversationHistory[k].role = "system"

(***************************************************************************)
(* C34  For every text p, the empty text included, clearHistory called      *)
(* right after setPreamble(p) leaves a history of exactly one message, the  *)
(* system message with content p.                                            *)
(***************************************************************************)
C34_ClearAfterSetPreamble ==
    [][ (last.op = "setPreamble" /\ last'.op = "clearHistory") =>
            conversationHistory' = <<SystemMessage(last.input)>> ]_vars

(***************************************************************************)
(* Awaited turns whose dispatch always succeeds, with the configuration     *)
(* operations called between them.                                           *)
(***************************************************************************)
NextSucceeding ==
    \/ \E m \in UserInputs : Idle /\ SendMessage(m)
    \/ \E u \in TemplatedInputs : Idle /\ SendTemplatedMessage(u)
    \/ \E i \in 1..Len(pending), r \in ChatResponses : ChatResolves(i, r)
    \/ \E i \in 1..Len(pending) : \E c \in StreamChunks(Len(SelectSeq(pending[i].stdout, NonEmpty))) : StreamChunk(i, c)
    \/ \E i \in 1..Len(pending) : StreamEnds(i)
    \/ \E p \in PreambleInputs : Idle /\ SetPreamble(p)
    \/ \E n \in TemplateNameInputs : Idle /\ SetTemplate(n)
    \/ Idle /\ ClearTemplate
    \/ \E u \in ConfigUpdates : Idle /\ UpdateConfig(u)

SpecSucceeding == Init /\ [][NextSucceeding]_vars

(***************************************************************************)
(* C35  When the turns run one after another and every dispatch succeeds,   *)
(* then between turns the messages of the history that are not system       *)
(* messages alternate user, assistant, user, assistant: the first is a user *)
(* message and the last an assistant message, whatever setPreamble,         *)
(* updateConfig, setTemplate and clearTemplate calls come between turns.     *)
(***************************************************************************)
Alternates(messages) ==
    /\ Len(messages) % 2 = 0
    /\ \A k \in 1..Len(messages) :
          messages[k].role = IF k % 2 = 1 THEN "user" ELSE "assistant"

C35_TurnsAlternate == Idle => Alternates(SelectSeq(conversationHistory, NotSystem))

\* Two turns are in the history, a template was made active in between, and
\* the latest call is a configuration update.
C35_Witness ==
    /\ Idle
    /\ Len(SelectSeq(conversationHistory, NotSystem)) = 4
    /\ "activeTemplate" \in Defined(config)
    /\ last.op = "updateConfig"

(***************************************************************************)
(* C36  An assistant message is appended only behind the user message of    *)
(* its own turn: when a turn returns, also after clearHistory or another    *)
(* sendMessage has run while it was waiting, the last message of the        *)
(* history is the user message that turn pushed.                             *)
(***************************************************************************)
C36_AssistantFollowsItsUser ==
    [][ \A i \in 1..Len(pending) :
            Returns(i) =>
                /\ conversationHistory # <<>>
                /\ conversationHistory[Len(conversationHistory)] =
                       UserMessage(pending[i].message)
                /\ Len(conversationHistory) = Len(pending[i].h0) + 1
      ]_vars

(***************************************************************************)
(* Streams that also deliver chunks of other types with a text in them.     *)
(***************************************************************************)
OtherChunks ==
    { [type |-> "content-start",
       delta |-> [message |-> [content |-> [text |-> Frag_lo]]]],
      [type |-> "message-end", delta |-> [finish_reason |-> "COMPLETE"]] }

NextStream ==
    \/ \E m \in TemplatedInputs : Idle /\ SendMessage(m)
    \/ \E i \in 1..Len(pending), r \in ChatResponses : ChatResolves(i, r)
    \/ \E i \in 1..Len(pending) :
          \E c \in StreamChunks(Len(SelectSeq(pending[i].stdout, NonEmpty))) \cup OtherChunks :
              StreamChunk(i, c)
    \/ \E i \in 1..Len(pending) : StreamEnds(i)
    \/ \E i \in 1..Len(pending), e \in FailureKinds :
          Raises(pending[i], e) /\ DispatchFails(i, e)

SpecStream == InitTurns /\ [][NextStream]_vars

(***************************************************************************)
(* C37  A stream that ends normally without any text, having delivered no   *)
(* content-delta chunk or only chunks without a text, completes the turn:   *)
(* one assistant message with empty content is appended and the empty text  *)
(* is returned.  Chunks of a type other than content-delta add nothing to   *)
(* the text of a turn, whatever they carry, and the turn still returns.      *)
(***************************************************************************)
IsContentDelta(chunk) == chunk.type = "content-delta"

StreamReturn ==
    \A i \in 1..Len(pending) :
        (Returns(i) /\ pending[i].api = "chatStream") =>
            LET deltas == SelectSeq(pending[i].delivered, IsContentDelta)
                text == Concatenation(Fragments(deltas))
            IN  /\ last'.value = text
                /\ conversationHistory' =
                       Append(conversationHistory, AssistantMessage(text))
                /\ Fragments(deltas) = <<>> =>
                      /\ last'.value = <<>>
                      /\ conversationHistory'[Len(conversationHistory')] =
                             AssistantMessage(<<>>)
                      /\ Len(conversationHistory') = Len(conversationHistory) + 1

C37_TextlessStreamCompletes == [][StreamReturn]_vars

\* A stream delivered two chunks, none of them a content-delta with a text, and
\* ended: the turn returned the empty text and appended an assistant message
\* with empty content behind its user message.
C37_Witness ==
    /\ last.outcome = "returned"
    /\ last.op = "sendMessage"
    /\ last.api = "chatStream"
    /\ last.got = 2
    /\ last.value = <<>>
    /\ conversationHistory[Len(conversationHistory)] = AssistantMessage(<<>>)
    /\ conversationHistory[Len(conversationHistory) - 1] = UserMessage(last.input)

(***************************************************************************)
(* Plain and templated turns of one session, with every registry template  *)
(* made active and cleared between them.                                     *)
(***************************************************************************)
NextEitherCall ==
    \/ \E n \in RegistryNames : Idle /\ SetTemplate(n)
    \/ Idle /\ ClearTemplate
    \/ \E m \in TemplatedTexts : Idle /\ SendMessage(m)
    \/ \E u \in TemplatedTexts : Idle /\ SendTemplatedMessage(u)
    \/ \E i \in 1..Len(pending) : ChatResolves(i, [message |-> [content |-> <<[text |-> Text_Hello]>>]])

SpecEitherCall == Init /\ [][NextEitherCall]_vars

(***************************************************************************)
(* C38  sendMessage(m) appends the user message m and sends m as the last   *)
(* message of the request, whatever template is active, and leaves the      *)
(* configuration alone; and a call made right after clearTemplate(), by     *)
(* sendMessage or by sendTemplatedMessage, commits and sends exactly its    *)
(* argument.                                                                 *)
(***************************************************************************)
PlainCall ==
    /\ Len(pending') = Len(pending) + 1
    /\ last'.op = "sendMessage"

CallAfterClearTemplate ==
    /\ Len(pending') = Len(pending) + 1
    /\ last.op = "clearTemplate"

C38_PlainTurnUntemplated ==
    [][ /\ PlainCall => (CommitsAndSends(last'.input) /\ config' = config)
        /\ CallAfterClearTemplate =>
              /\ last'.op \in {"sendMessage", "sendTemplatedMessage"}
              /\ "activeTemplate" \notin Defined(config)
              /\ CommitsAndSends(last'.input) ]_vars

\* sendMessage is waiting on the service with the code template active: the
\* message committed and sent is the caller's text, not the rendered one.
C38_Witness ==
    /\ Len(pending) = 1
    /\ pending[1].op = "sendMessage"
    /\ "activeTemplate" \in Defined(config)
    /\ config.activeTemplate = "code"
    /\ pending[1].input = Text_sort
    /\ conversationHistory[Len(conversationHistory)] = UserMessage(Text_sort)
    /\ applyTemplate(getTemplate("code"), Text_sort) # Text_sort

====
